---- MODULE Spec2Model ----
(***************************************************************************)
(* Component registry and dynamic resolution engine of search-system:      *)
(* the manifest parsers, the agent loaders and the registries of           *)
(* search_agent.registry and custom_adk_registry.                          *)
(***************************************************************************)
EXTENDS Integers, Sequences, FiniteSets, TLC

VARIABLES
  file,           \* content of the manifest file at config_path
  config,         \* AgentsRegistry._config
  loaded_agents,  \* AgentsRegistry._loaded_agents (a list object, or None)
  first_list,     \* history: id of the list the first successful load returned since the last reload()
  first_built,    \* history: the same, also forgotten when load_agents(force_reload=True) is called
  loaded_from,    \* history: the document the cached list was loaded from
  last,           \* history: the last call, what it did and what it returned or raised
  req,            \* the loader under test: the runtime namespace and the arguments of a call
  threads,        \* the callers that share one AgentsRegistry: where each is in its call
  handed          \* history: the lists load_agents() without force_reload has returned to them

vars ==
  <<file, config, loaded_agents, first_list, first_built, loaded_from, last, req, threads,
    handed>>

(***************************************************************************)
(* Python values                                                           *)
(***************************************************************************)

\* dict.get(key, default)
Get(d, k, default) == IF k \in DOMAIN d THEN d[k] ELSE default

\* Python's None where a string is expected (dict.get(key) of an absent key)
None == "None"

\* truthiness of an optional string: None and "" are falsy
Truthy(s) == s # None /\ s # ""

\* an exception: its class, what its message names, and its explicit cause
\* (raise ... from e); "none" where there is none
Exc(kind, what, name, module, names, positions, cause) ==
  [kind |-> kind, what |-> what, name |-> name, module |-> module,
   names |-> names, positions |-> positions, cause |-> cause]

NoError == Exc("none", "none", "", "", <<>>, <<>>, "none")

\* a tool: the function of a module
ToolRef(module_path, function_name) == [module |-> module_path, function |-> function_name]

\* an Agent instance: the module attribute that holds it and its embedded
\* name; its model, description and instruction, told apart by the attribute
\* they were written for; rebuilt: it is a new instance made from that one;
\* its tools and its sub_agents (an instance found in a module has a tool of
\* its own)
AgentObj(module_path, attr, name) ==
  [module |-> module_path, attr |-> attr, name |-> name,
   model |-> <<module_path, attr>>, description |-> <<module_path, attr>>,
   instruction |-> <<module_path, attr>>, rebuilt |-> FALSE,
   tools |-> <<ToolRef(module_path, "own_tool")>>, sub_agents |-> <<>>]

NoAgent == AgentObj("", "", "")

\* the outcome of a call: a returned value or a raised exception
Returned(v) == [ok |-> TRUE, value |-> v, err |-> NoError]
Raised(e) == [ok |-> FALSE, value |-> NoAgent, err |-> e]

(***************************************************************************)
(* Modules of the runtime namespace                                        *)
(***************************************************************************)

\* the attribute names a module may have, in the order dir(module) lists them
AttrNames == <<"_private_agent", "helper", "root", "search", "summarizing_agent", "wikipedia_agent">>

AttrSet == {AttrNames[i] : i \in 1..Len(AttrNames)}

EndsWithAgent(a) == a \in {"_private_agent", "summarizing_agent", "wikipedia_agent"}

StartsWithUnderscore(a) == a = "_private_agent"

\* attribute values: no such attribute, a plain object, a function, an Agent
Absent == [kind |-> "absent", name |-> ""]
PlainObject == [kind |-> "object", name |-> ""]
Function == [kind |-> "function", name |-> ""]
AgentValue(n) == [kind |-> "agent", name |-> n]

\* a module: what importing it does, and its attributes
Module(import, attrs) == [import |-> import, attrs |-> attrs]

NoAttrs == [a \in AttrSet |-> Absent]

\* hasattr(module, name)
HasAttr(module, name) == name \in AttrSet /\ module.attrs[name].kind # "absent"

\* isinstance(getattr(module, name), Agent)
IsAgent(module, name) == module.attrs[name].kind = "agent"

\* dir(module): the attribute names present, sorted
Dir(module) == SelectSeq(AttrNames, LAMBDA a : module.attrs[a].kind # "absent")

(***************************************************************************)
(* AgentLoader (search_agent/registry/agent_loader.py)                     *)
(***************************************************************************)

\* the first candidate matching agent_name, by attribute name or embedded name
RECURSIVE FirstMatching(_, _, _)
FirstMatching(module, cands, agent_name) ==
  IF cands = <<>> THEN ""
  ELSE IF Head(cands) = agent_name \/ module.attrs[Head(cands)].name = agent_name
       THEN Head(cands)
       ELSE FirstMatching(module, Tail(cands), agent_name)

\* discovery that takes a single candidate only when it matches agent_name
discover_agent_NameMustMatch(module, agent_name, module_path) ==
  LET found(a) == Returned(AgentObj(module_path, a, module.attrs[a].name))
      agent_candidates ==
        SelectSeq(Dir(module), LAMBDA a :
          EndsWithAgent(a) /\ ~StartsWithUnderscore(a) /\ IsAgent(module, a))
      public_agents ==
        SelectSeq(Dir(module), LAMBDA a : ~StartsWithUnderscore(a) /\ IsAgent(module, a))
  IN  IF HasAttr(module, agent_name) /\ IsAgent(module, agent_name)
        THEN found(agent_name)
      ELSE IF Len(agent_candidates) >= 1
        THEN IF FirstMatching(module, agent_candidates, agent_name) # ""
               THEN found(FirstMatching(module, agent_candidates, agent_name))
               ELSE Raised(Exc("AgentLoadError", "multiple", agent_name, module_path,
                               agent_candidates, <<>>, "none"))
      ELSE IF public_agents # <<>>
        THEN found(public_agents[1])
      ELSE Raised(Exc("AgentLoadError", "no_agent", agent_name, module_path,
                      <<>>, <<>>, "none"))

\* discovery that takes the first of several candidates when none matches
discover_agent_PicksFirst(module, agent_name, module_path) ==
  LET found(a) == Returned(AgentObj(module_path, a, module.attrs[a].name))
      agent_candidates ==
        SelectSeq(Dir(module), LAMBDA a :
          EndsWithAgent(a) /\ ~StartsWithUnderscore(a) /\ IsAgent(module, a))
      public_agents ==
        SelectSeq(Dir(module), LAMBDA a : ~StartsWithUnderscore(a) /\ IsAgent(module, a))
  IN  IF HasAttr(module, agent_name) /\ IsAgent(module, agent_name)
        THEN found(agent_name)
      ELSE IF Len(agent_candidates) >= 1
        THEN IF FirstMatching(module, agent_candidates, agent_name) # ""
               THEN found(FirstMatching(module, agent_candidates, agent_name))
               ELSE found(agent_candidates[1])
      ELSE IF public_agents # <<>>
        THEN found(public_agents[1])
      ELSE Raised(Exc("AgentLoadError", "no_agent", agent_name, module_path,
                      <<>>, <<>>, "none"))

\* discovery whose scan of the public attributes takes the last Agent it meets
discover_agent_LastPublic(module, agent_name, module_path) ==
  LET found(a) == Returned(AgentObj(module_path, a, module.attrs[a].name))
      agent_candidates ==
        SelectSeq(Dir(module), LAMBDA a :
          EndsWithAgent(a) /\ ~StartsWithUnderscore(a) /\ IsAgent(module, a))
      public_agents ==
        SelectSeq(Dir(module), LAMBDA a : ~StartsWithUnderscore(a) /\ IsAgent(module, a))
  IN  IF HasAttr(module, agent_name) /\ IsAgent(module, agent_name)
        THEN found(agent_name)
      ELSE IF Len(agent_candidates) = 1
        THEN found(agent_candidates[1])
      ELSE IF Len(agent_candidates) > 1
        THEN IF FirstMatching(module, agent_candidates, agent_name) # ""
               THEN found(FirstMatching(module, agent_candidates, agent_name))
               ELSE Raised(Exc("AgentLoadError", "multiple", agent_name, module_path,
                               agent_candidates, <<>>, "none"))
      ELSE IF public_agents # <<>>
        THEN found(public_agents[Len(public_agents)])
      ELSE Raised(Exc("AgentLoadError", "no_agent", agent_name, module_path,
                      <<>>, <<>>, "none"))

\* discovery that looks at the candidates before the attribute named agent_name
discover_agent_CandidatesFirst(module, agent_name, module_path) ==
  LET found(a) == Returned(AgentObj(module_path, a, module.attrs[a].name))
      agent_candidates ==
        SelectSeq(Dir(module), LAMBDA a :
          EndsWithAgent(a) /\ ~StartsWithUnderscore(a) /\ IsAgent(module, a))
      public_agents ==
        SelectSeq(Dir(module), LAMBDA a : ~StartsWithUnderscore(a) /\ IsAgent(module, a))
  IN  IF Len(agent_candidates) = 1
        THEN found(agent_candidates[1])
      ELSE IF Len(agent_candidates) > 1
        THEN IF FirstMatching(module, agent_candidates, agent_name) # ""
               THEN found(FirstMatching(module, agent_candidates, agent_name))
               ELSE Raised(Exc("AgentLoadError", "multiple", agent_name, module_path,
                               agent_candidates, <<>>, "none"))
      ELSE IF HasAttr(module, agent_name) /\ IsAgent(module, agent_name)
        THEN found(agent_name)
      ELSE IF public_agents # <<>>
        THEN found(public_agents[1])
      ELSE Raised(Exc("AgentLoadError", "no_agent", agent_name, module_path,
                      <<>>, <<>>, "none"))

\* AgentLoader.discover_agent: the attribute that holds the agent, or an error
discover_agent(module, agent_name, module_path) ==
  LET found(a) == Returned(AgentObj(module_path, a, module.attrs[a].name))
      agent_candidates ==
        SelectSeq(Dir(module), LAMBDA a :
          EndsWithAgent(a) /\ ~StartsWithUnderscore(a) /\ IsAgent(module, a))
      public_agents ==
        SelectSeq(Dir(module), LAMBDA a : ~StartsWithUnderscore(a) /\ IsAgent(module, a))
  IN  IF HasAttr(module, agent_name) /\ IsAgent(module, agent_name)
        THEN found(agent_name)
      ELSE IF Len(agent_candidates) = 1
        THEN found(agent_candidates[1])
      ELSE IF Len(agent_candidates) > 1
        THEN IF FirstMatching(module, agent_candidates, agent_name) # ""
               THEN found(FirstMatching(module, agent_candidates, agent_name))
               ELSE Raised(Exc("AgentLoadError", "multiple", agent_name, module_path,
                               agent_candidates, <<>>, "none"))
      ELSE IF public_agents # <<>>
        THEN found(public_agents[1])
      ELSE Raised(Exc("AgentLoadError", "no_agent", agent_name, module_path,
                      <<>>, <<>>, "none"))

\* importlib.import_module(module_path) in namespace w: a path the namespace
\* does not know raises ImportError
MissingModule == [import |-> "ImportError", attrs |-> NoAttrs]

ImportModule(w, module_path) ==
  IF module_path \in DOMAIN w THEN w[module_path] ELSE MissingModule

\* importlib.import_module inside load_agent_from_module: the error it is turned into
ImportFailure_Swapped(import, agent_name, module_path) ==
  IF import = "ImportError"
    THEN Exc("AgentLoadError", "failed_to_import", agent_name, module_path, <<>>, <<>>, "none")
    ELSE Exc("AgentNotFoundError", "error_importing", agent_name, module_path, <<>>, <<>>, "none")

ImportFailure(import, agent_name, module_path) ==
  IF import = "ImportError"
    THEN Exc("AgentNotFoundError", "failed_to_import", agent_name, module_path, <<>>, <<>>, "none")
    ELSE Exc("AgentLoadError", "error_importing", agent_name, module_path, <<>>, <<>>, "none")

\* AgentLoader.load_agent_from_module(module_path, agent_name) in namespace w
load_agent_from_module(w, module_path, agent_name) ==
  LET module == ImportModule(w, module_path)
  IN  IF module.import # "ok"
        THEN Raised(ImportFailure(module.import, agent_name, module_path))
        ELSE discover_agent(module, agent_name, module_path)

(***************************************************************************)
(* ToolLoader (search_agent/registry/tool_loader.py and                    *)
(* dynamic_adk_registry/tools/loader.py, which run the same steps)         *)
(***************************************************************************)

\* a function that raises when it is called
FailingFunction == [kind |-> "function", name |-> "raises"]

\* what a tool function returns when called
ToolMade(module_path, function_name) ==
  [module |-> module_path, function |-> function_name, made |-> TRUE]

\* ToolLoader.load_tool_from_module: only ImportError is caught around the
\* import; every failure after it, and ImportError itself, raises ToolLoadError
ToolLoader_load_tool_from_module(w, module_path, function_name) ==
  LET module == ImportModule(w, module_path)
      fail(what) == Raised(Exc("ToolLoadError", what, function_name, module_path,
                               <<>>, <<>>, "none"))
  IN  IF module.import = "ImportError" THEN fail("failed_to_import")
      ELSE IF module.import # "ok"
        THEN Raised(Exc(module.import, "import", "", module_path, <<>>, <<>>, "none"))
      ELSE IF ~HasAttr(module, function_name) THEN fail("not_found")
      ELSE IF module.attrs[function_name].kind # "function" THEN fail("not_callable")
      ELSE IF module.attrs[function_name] = FailingFunction THEN fail("failed_to_execute")
      ELSE Returned(ToolMade(module_path, function_name))

(***************************************************************************)
(* Manifest documents                                                      *)
(***************************************************************************)

\* what yaml.safe_load makes of the file: kind "doc" is a mapping whose
\* 'agents' key holds a list of entries; the other kinds are a file that cannot
\* be read or parsed ("malformed"), an empty document, a mapping without the
\* expected key, and a mapping whose key holds no list; "sequence" is a
\* document that is no mapping but a list holding the name of the expected
\* key (the file "- agents"). "missing": no file.
Content(kind, agents) == [kind |-> kind, agents |-> agents]

Doc(agents) == Content("doc", agents)

\* Python's None where a configuration dictionary is expected
NoConfig == Content("None", <<>>)

\* the outcome of parse(): the document, or the ConfigurationError raised
Parsed(doc) == [ok |-> TRUE, doc |-> doc, err |-> NoError]
ParseError(what, name, names, positions) ==
  [ok |-> FALSE, doc |-> NoConfig,
   err |-> Exc("ConfigurationError", what, name, "", names, positions, "none")]

\* config['agents'] on a document that is a list: the membership test
\* 'agents' not in config is false for it, and the subscript raises TypeError
SubscriptError ==
  [ok |-> FALSE, doc |-> NoConfig,
   err |-> Exc("TypeError", "list_indices", "", "", <<>>, <<>>, "none")]

(***************************************************************************)
(* YAMLParser (search_agent/registry/yaml_parser.py)                       *)
(***************************************************************************)

REQUIRED_FIELDS == {"name", "module", "enabled", "order"}

\* YAMLParser.validate_config over the entries: the first entry lacking a
\* required field raises; the field types are those of the entry model
RECURSIVE validate_entries(_, _)
validate_entries(agents, idx) ==
  IF idx > Len(agents) THEN NoError
  ELSE IF REQUIRED_FIELDS \ DOMAIN agents[idx] # {}
    THEN Exc("ConfigurationError", "missing_fields", Get(agents[idx], "name", "index"),
             "", <<>>, <<idx - 1>>, "none")
    ELSE validate_entries(agents, idx + 1)

\* YAMLParser.parse
YAMLParser_parse(f) ==
  IF f.kind \in {"missing", "malformed"} THEN ParseError("unreadable", "", <<>>, <<>>)
  ELSE IF f.kind = "empty" THEN ParseError("empty", "", <<>>, <<>>)
  ELSE IF f.kind = "nokey" THEN ParseError("no_agents_key", "", <<>>, <<>>)
  ELSE IF f.kind = "sequence" THEN SubscriptError
  ELSE IF f.kind = "notlist" THEN ParseError("not_a_list", "", <<>>, <<>>)
  ELSE IF validate_entries(f.agents, 1) # NoError
    THEN [ok |-> FALSE, doc |-> NoConfig, err |-> validate_entries(f.agents, 1)]
    ELSE Parsed(f)

(***************************************************************************)
(* Filtering and ordering of the entries                                   *)
(***************************************************************************)

\* the sort key of an entry that declares no order
DefaultOrder == 999

\* key=lambda x: x.get('order', 999)
OrderKey(x) == Get(x, "order", DefaultOrder)

\* config.get('enabled', False)
IsEnabled(x) == Get(x, "enabled", FALSE)

\* list.sort is stable: an element goes after every element whose key is not greater
RECURSIVE InsertSorted(_, _)
InsertSorted(s, x) ==
  IF s = <<>> THEN <<x>>
  ELSE IF OrderKey(Head(s)) <= OrderKey(x)
    THEN <<Head(s)>> \o InsertSorted(Tail(s), x)
    ELSE <<x>> \o s

RECURSIVE SortByOrder(_, _)
SortByOrder(todo, acc) ==
  IF todo = <<>> THEN acc ELSE SortByOrder(Tail(todo), InsertSorted(acc, Head(todo)))

\* a selection that keeps the disabled entries
EnabledConfigs_All(agent_configs) == SortByOrder(agent_configs, <<>>)

\* enabled_configs: the enabled entries, sorted by order
EnabledConfigs(agent_configs) == SortByOrder(SelectSeq(agent_configs, IsEnabled), <<>>)

(***************************************************************************)
(* SubAgentLoader (custom_adk_registry/sub_agents/loader.py)               *)
(***************************************************************************)

\* a loop that raises for an incomplete tool entry
RECURSIVE LoadTools_IncompleteFails(_, _, _, _)
LoadTools_IncompleteFails(w, todo, loaded_tools, agent_name) ==
  IF todo = <<>> THEN Returned(loaded_tools)
  ELSE LET tool_config == Head(todo)
           tool_name == Get(tool_config, "name", None)
           module_path == Get(tool_config, "module", None)
           function_name == Get(tool_config, "function", None)
           tool_module == ImportModule(w, module_path)
           fail(what) == Raised(Exc("AgentLoadError", what, agent_name, module_path,
                                    <<tool_name>>, <<>>, "none"))
       IN  IF ~Truthy(tool_name) \/ ~Truthy(module_path) \/ ~Truthy(function_name)
             THEN fail("failed_to_load_tool")
           ELSE IF tool_module.import # "ok" THEN fail("failed_to_load_tool")
           ELSE IF ~HasAttr(tool_module, function_name) THEN fail("failed_to_load_tool")
           ELSE IF tool_module.attrs[function_name].kind # "function"
             THEN fail("failed_to_load_tool")
           ELSE LoadTools_IncompleteFails(w, Tail(todo),
                          Append(loaded_tools, ToolRef(module_path, function_name)), agent_name)

\* the loop of load_tools_for_agent over the enabled, sorted tool entries:
\* an incomplete entry is skipped, every failure raises AgentLoadError
RECURSIVE LoadTools(_, _, _, _)
LoadTools(w, todo, loaded_tools, agent_name) ==
  IF todo = <<>> THEN Returned(loaded_tools)
  ELSE LET tool_config == Head(todo)
           tool_name == Get(tool_config, "name", None)
           module_path == Get(tool_config, "module", None)
           function_name == Get(tool_config, "function", None)
           tool_module == ImportModule(w, module_path)
           fail(what) == Raised(Exc("AgentLoadError", what, agent_name, module_path,
                                    <<tool_name>>, <<>>, "none"))
       IN  IF ~Truthy(tool_name) \/ ~Truthy(module_path) \/ ~Truthy(function_name)
             THEN LoadTools(w, Tail(todo), loaded_tools, agent_name)
           ELSE IF tool_module.import = "ImportError" THEN fail("failed_to_import_tool")
           ELSE IF tool_module.import # "ok" THEN fail("failed_to_load_tool")
           ELSE IF ~HasAttr(tool_module, function_name) THEN fail("failed_to_load_tool")
           ELSE IF tool_module.attrs[function_name].kind # "function"
             THEN fail("failed_to_load_tool")
           ELSE LoadTools(w, Tail(todo),
                          Append(loaded_tools, ToolRef(module_path, function_name)), agent_name)

\* SubAgentLoader.load_tools_for_agent
load_tools_for_agent(w, tool_configs, agent_name) ==
  LoadTools(w, EnabledConfigs(tool_configs), <<>>, agent_name)

\* a rebuild that adds the loaded tools and sub_agents to the agent's own
rebuild_agent_Merges(agent, tools, sub_agents) ==
  [model |-> agent.model, name |-> agent.name, description |-> agent.description,
   instruction |-> agent.instruction, module |-> agent.module, attr |-> agent.attr,
   rebuilt |-> TRUE, tools |-> agent.tools \o tools,
   sub_agents |-> agent.sub_agents \o sub_agents]

\* SubAgentLoader._rebuild_agent_with_tools_and_sub_agents: a new instance,
\* Agent(model=agent.model, name=agent.name, description=agent.description,
\* instruction=agent.instruction, tools=tools, sub_agents=sub_agents); the
\* lists handed to it by discover_agent are never None
rebuild_agent(agent, tools, sub_agents) ==
  [model |-> agent.model, name |-> agent.name, description |-> agent.description,
   instruction |-> agent.instruction, module |-> agent.module, attr |-> agent.attr,
   rebuilt |-> TRUE, tools |-> tools, sub_agents |-> sub_agents]

\* the agent handed to _rebuild_agent_with_tools_and_sub_agents, after the
\* call: the function reads its attributes and assigns none
after_rebuild(agent, tools, sub_agents) == agent

\* the outcome of a discovery: the agent returned, and the instance found in
\* the module as the call leaves it
Discovered(value, found) == [ok |-> TRUE, value |-> value, err |-> NoError, found |-> found]

\* a discovery that rebuilds whatever it finds
SubAgentLoader_discover_agent_AlwaysRebuilds(module, agent_name, module_path, tools, sub_agents) ==
  LET d == discover_agent(module, agent_name, module_path)
  IN  IF d.ok
        THEN Discovered(rebuild_agent(d.value, tools, sub_agents),
                        after_rebuild(d.value, tools, sub_agents))
        ELSE d

\* SubAgentLoader.discover_agent: the discovery of AgentLoader, and the
\* rebuild of what it finds when tools or sub_agents were loaded
SubAgentLoader_discover_agent(module, agent_name, module_path, tools, sub_agents) ==
  LET d == discover_agent(module, agent_name, module_path)
  IN  IF d.ok /\ (tools # <<>> \/ sub_agents # <<>>)
        THEN Discovered(rebuild_agent(d.value, tools, sub_agents),
                        after_rebuild(d.value, tools, sub_agents))
      ELSE IF d.ok THEN Discovered(d.value, d.value)
      ELSE d

RECURSIVE SubAgentLoader_load_agent_from_module(_, _, _, _, _)
RECURSIVE LoadSubAgents(_, _, _, _)

\* the loop of load_sub_agents_for_agent over the enabled, sorted entries: an
\* incomplete entry is skipped, every failure raises AgentLoadError
LoadSubAgents(w, todo, loaded_sub_agents, parent_agent_name) ==
  IF todo = <<>> THEN Returned(loaded_sub_agents)
  ELSE LET sub_agent_config == Head(todo)
           sub_agent_name == Get(sub_agent_config, "name", None)
           module_path == Get(sub_agent_config, "module", None)
           r == SubAgentLoader_load_agent_from_module(
                  w, module_path, sub_agent_name,
                  Get(sub_agent_config, "tools", <<>>),
                  Get(sub_agent_config, "sub_agents", <<>>))
       IN  IF ~Truthy(sub_agent_name) \/ ~Truthy(module_path)
             THEN LoadSubAgents(w, Tail(todo), loaded_sub_agents, parent_agent_name)
           ELSE IF ~r.ok
             THEN Raised(Exc("AgentLoadError", "failed_to_load_sub_agent", parent_agent_name,
                             module_path, <<sub_agent_name>>, <<>>, "none"))
           ELSE LoadSubAgents(w, Tail(todo), Append(loaded_sub_agents, r.value),
                              parent_agent_name)

\* SubAgentLoader.load_sub_agents_for_agent
load_sub_agents_for_agent(w, sub_agent_configs, parent_agent_name) ==
  LoadSubAgents(w, EnabledConfigs(sub_agent_configs), <<>>, parent_agent_name)

\* a loader that loads the sub_agents before the tools
SubAgentLoader_load_agent_from_module_SubAgentsFirst(w, module_path, agent_name, tools, sub_agents) ==
  LET module == ImportModule(w, module_path)
      loaded_tools ==
        IF tools # <<>> THEN load_tools_for_agent(w, tools, agent_name) ELSE Returned(<<>>)
      loaded_sub_agents ==
        IF sub_agents # <<>> THEN load_sub_agents_for_agent(w, sub_agents, agent_name)
        ELSE Returned(<<>>)
  IN  IF module.import # "ok"
        THEN Raised(ImportFailure(module.import, agent_name, module_path))
      ELSE IF ~loaded_sub_agents.ok THEN Raised(loaded_sub_agents.err)
      ELSE IF ~loaded_tools.ok THEN Raised(loaded_tools.err)
      ELSE SubAgentLoader_discover_agent(module, agent_name, module_path,
                                         loaded_tools.value, loaded_sub_agents.value)

\* SubAgentLoader.load_agent_from_module: import, tools, sub_agents, discovery
SubAgentLoader_load_agent_from_module(w, module_path, agent_name, tools, sub_agents) ==
  LET module == ImportModule(w, module_path)
      loaded_tools ==
        IF tools # <<>> THEN load_tools_for_agent(w, tools, agent_name) ELSE Returned(<<>>)
      loaded_sub_agents ==
        IF sub_agents # <<>> THEN load_sub_agents_for_agent(w, sub_agents, agent_name)
        ELSE Returned(<<>>)
  IN  IF module.import # "ok"
        THEN Raised(ImportFailure(module.import, agent_name, module_path))
      ELSE IF ~loaded_tools.ok THEN Raised(loaded_tools.err)
      ELSE IF ~loaded_sub_agents.ok THEN Raised(loaded_sub_agents.err)
      ELSE SubAgentLoader_discover_agent(module, agent_name, module_path,
                                         loaded_tools.value, loaded_sub_agents.value)

(***************************************************************************)
(* AgentsRegistry (search_agent/registry/agents_registry.py)               *)
(***************************************************************************)

\* a list object: its identity and its items; id 0 is None
ListObj(id, items) == [id |-> id, items |-> items]

NoList == ListObj(0, <<>>)

\* the number of list identities told apart
MaxObjs == 5

\* the identity of a newly created list: one no live reference holds
FreshId ==
  LET live == {loaded_agents.id, first_list, first_built, last.list.id}
  IN  CHOOSE i \in 1..MaxObjs : i \notin live /\ \A j \in 1..(i - 1) : j \in live

\* the outcome of the loading loop: the agents appended so far, the entries
\* handed to the loader, those of them for which the loader raised (with the
\* kind it raised), and the error the loop raised, if any
LoopResult(ok, agents, attempted, raised, err) ==
  [ok |-> ok, agents |-> agents, attempted |-> attempted, raised |-> raised, err |-> err]

Failure(cfg, e) == [entry |-> cfg, kind |-> e.kind]

\* the except clause of the loop: AgentLoadError naming the entry, from e
WrapLoadError(cfg, e) ==
  Exc("AgentLoadError", "failed_to_load", cfg["name"], cfg["module"], <<>>, <<>>, e.kind)

\* a loop that goes on to the next entry when the loader raises
RECURSIVE LoadEach_SkipFailed(_, _, _, _, _)
LoadEach_SkipFailed(w, todo, agents, attempted, raised) ==
  IF todo = <<>> THEN LoopResult(TRUE, agents, attempted, raised, NoError)
  ELSE LET cfg == Head(todo)
           r == load_agent_from_module(w, cfg["module"], cfg["name"])
       IN  IF r.ok
             THEN LoadEach_SkipFailed(w, Tail(todo), Append(agents, r.value),
                                      Append(attempted, cfg), raised)
             ELSE LoadEach_SkipFailed(w, Tail(todo), agents, Append(attempted, cfg),
                                      Append(raised, Failure(cfg, r.err)))

\* a loop that hands an entry to the loader a second time when it raised
RECURSIVE LoadEach_RetryOnce(_, _, _, _, _)
LoadEach_RetryOnce(w, todo, agents, attempted, raised) ==
  IF todo = <<>> THEN LoopResult(TRUE, agents, attempted, raised, NoError)
  ELSE LET cfg == Head(todo)
           r == load_agent_from_module(w, cfg["module"], cfg["name"])
       IN  IF r.ok
             THEN LoadEach_RetryOnce(w, Tail(todo), Append(agents, r.value),
                                     Append(attempted, cfg), raised)
             ELSE LoopResult(FALSE, agents, attempted \o <<cfg, cfg>>,
                             Append(raised, Failure(cfg, r.err)), WrapLoadError(cfg, r.err))

\* for config in enabled_configs: load, append; the first failure raises
RECURSIVE LoadEach(_, _, _, _, _)
LoadEach(w, todo, agents, attempted, raised) ==
  IF todo = <<>> THEN LoopResult(TRUE, agents, attempted, raised, NoError)
  ELSE LET cfg == Head(todo)
           r == load_agent_from_module(w, cfg["module"], cfg["name"])
       IN  IF r.ok
             THEN LoadEach(w, Tail(todo), Append(agents, r.value), Append(attempted, cfg),
                           raised)
             ELSE LoopResult(FALSE, agents, Append(attempted, cfg),
                             Append(raised, Failure(cfg, r.err)), WrapLoadError(cfg, r.err))

\* self._loaded_agents after the loop raised: the assignment that caches the
\* list is not reached, the field keeps what it held
AfterFailure_KeepsPartial(cached, id, agents) == ListObj(id, agents)

AfterFailure(cached, id, agents) == cached

\* a module whose attribute wikipedia_agent holds an Agent named n
AgentModule(n) == Module("ok", [NoAttrs EXCEPT !["wikipedia_agent"] = AgentValue(n)])

GoodModule == AgentModule("wiki")
EmptyModule == Module("ok", [NoAttrs EXCEPT !["helper"] = PlainObject])

\* the runtime namespaces a call may meet: a module path of the manifest
\* imports a module with one agent, which has a name of its own, or fails:
\* mod_a and mod_c cannot be imported, mod_b imports without any agent in it
Worlds ==
  { [mod_a |-> a, mod_b |-> b, mod_c |-> c] :
      a \in {AgentModule("agent_a"), MissingModule},
      b \in {AgentModule("agent_b"), EmptyModule},
      c \in {AgentModule("agent_c"), MissingModule} }

\* the record of a call: a bit that flips with every call, the operation and
\* its arguments, whether the manifest was parsed, the entries handed to the
\* loader and those it raised for, and the value returned (a list object, an
\* entry, names) or the exception raised; retry: the call before it was a
\* load that raised
Call(op, force, arg, parsed, attempted, raised, ok, list, entry, names, err) ==
  [tick |-> 1 - last.tick, retry |-> (~last.ok /\ last.op \in {"load_agents", "reload"}),
   op |-> op, force |-> force, arg |-> arg, parsed |-> parsed,
   attempted |-> attempted, raised |-> raised, ok |-> ok, list |-> list, entry |-> entry,
   names |-> names, err |-> err]

NoEntry == [name |-> None]

\* a cache check that never finds the cache
CacheHit_NeverCached(cached, force_reload) == FALSE

\* if self._loaded_agents is not None and not force_reload
CacheHit(cached, force_reload) == cached # NoList /\ ~force_reload

\* the history of the first list returned: kept once set
Remember(first, list) == IF first = 0 THEN list.id ELSE first

\* load_agents past the cache check, started from cached list `cached` with
\* the history values f1, f2: parse, filter, sort, load each, cache the list
LoadFresh(op, force, cached, from, f1, f2, keep_config) ==
  LET p == YAMLParser_parse(file)
  IN  IF ~p.ok
        THEN /\ config' = keep_config
             /\ loaded_agents' = cached
             /\ loaded_from' = from
             /\ first_list' = f1
             /\ first_built' = f2
             /\ last' = Call(op, force, None, TRUE, <<>>, <<>>, FALSE, NoList, NoEntry, <<>>,
                             p.err)
        ELSE \E w \in Worlds :
               LET r == LoadEach(w, EnabledConfigs(Get(p.doc, "agents", <<>>)), <<>>, <<>>, <<>>)
                   new == ListObj(FreshId, r.agents)
               IN  /\ config' = p.doc
                   /\ IF r.ok
                        THEN /\ loaded_agents' = new
                             /\ loaded_from' = p.doc
                             /\ first_list' = Remember(f1, new)
                             /\ first_built' = Remember(f2, new)
                             /\ last' = Call(op, force, None, TRUE, r.attempted, r.raised, TRUE,
                                             new, NoEntry, <<>>, NoError)
                        ELSE /\ loaded_agents' = AfterFailure(cached, FreshId, r.agents)
                             /\ loaded_from' = from
                             /\ first_list' = f1
                             /\ first_built' = f2
                             /\ last' = Call(op, force, None, TRUE, r.attempted, r.raised, FALSE,
                                             NoList, NoEntry, <<>>, r.err)

\* AgentsRegistry.load_agents(force_reload)
load_agents(force_reload) ==
  /\ file' = file
  /\ UNCHANGED <<req, threads, handed>>
  /\ IF CacheHit(loaded_agents, force_reload)
       THEN /\ UNCHANGED <<config, loaded_agents, loaded_from>>
            /\ first_list' = Remember(first_list, loaded_agents)
            /\ first_built' = Remember(first_built, loaded_agents)
            /\ last' = Call("load_agents", force_reload, None, FALSE, <<>>, <<>>, TRUE,
                            loaded_agents, NoEntry, <<>>, NoError)
       ELSE LoadFresh("load_agents", force_reload, loaded_agents, loaded_from,
                      first_list, IF force_reload THEN 0 ELSE first_built, config)

\* a reload that clears nothing and does not force
reload_KeepsCache ==
  /\ file' = file
  /\ UNCHANGED <<req, threads, handed>>
  /\ IF CacheHit(loaded_agents, FALSE)
       THEN /\ UNCHANGED <<config, loaded_agents, loaded_from, first_list, first_built>>
            /\ last' = Call("reload", TRUE, None, FALSE, <<>>, <<>>, TRUE,
                            loaded_agents, NoEntry, <<>>, NoError)
       ELSE LoadFresh("reload", TRUE, loaded_agents, loaded_from, first_list, first_built,
                      config)

\* AgentsRegistry.reload(): clear _config and _loaded_agents, then
\* load_agents(force_reload=True)
reload ==
  /\ file' = file
  /\ UNCHANGED <<req, threads, handed>>
  /\ LoadFresh("reload", TRUE, NoList, NoConfig, 0, 0, NoConfig)

\* a lookup that passes over the disabled entries
RECURSIVE FindByName_EnabledOnly(_, _)
FindByName_EnabledOnly(agent_configs, agent_name) ==
  IF agent_configs = <<>> THEN NoEntry
  ELSE IF /\ Get(Head(agent_configs), "name", None) = agent_name
          /\ Get(Head(agent_configs), "enabled", FALSE)
    THEN Head(agent_configs)
  ELSE FindByName_EnabledOnly(Tail(agent_configs), agent_name)

\* the first entry of the list whose name is agent_name, or None
RECURSIVE FindByName(_, _)
FindByName(agent_configs, agent_name) ==
  IF agent_configs = <<>> THEN NoEntry
  ELSE IF Get(Head(agent_configs), "name", None) = agent_name THEN Head(agent_configs)
  ELSE FindByName(Tail(agent_configs), agent_name)

\* AgentsRegistry.get_agent_config(agent_name)
get_agent_config(agent_name) ==
  LET p == IF config = NoConfig THEN YAMLParser_parse(file) ELSE Parsed(config)
  IN  /\ UNCHANGED <<file, req, threads, handed, loaded_agents, loaded_from, first_list,
                      first_built>>
      /\ IF ~p.ok
           THEN /\ config' = config
                /\ last' = Call("get_agent_config", FALSE, agent_name, TRUE, <<>>, <<>>,
                                FALSE, NoList, NoEntry, <<>>, p.err)
           ELSE /\ config' = p.doc
                /\ last' = Call("get_agent_config", FALSE, agent_name, config = NoConfig,
                                <<>>, <<>>, TRUE, NoList,
                                FindByName(Get(p.doc, "agents", <<>>), agent_name), <<>>, NoError)

\* the names of the agents, last one first
RECURSIVE AgentNames_Reversed(_)
AgentNames_Reversed(agents) ==
  IF agents = <<>> THEN <<>>
  ELSE AgentNames_Reversed(Tail(agents)) \o <<Head(agents).name>>

\* [agent.name for agent in self._loaded_agents]
RECURSIVE AgentNames(_)
AgentNames(agents) ==
  IF agents = <<>> THEN <<>> ELSE <<Head(agents).name>> \o AgentNames(Tail(agents))

\* AgentsRegistry.get_loaded_agent_names()
get_loaded_agent_names ==
  /\ UNCHANGED <<file, req, threads, handed, config, loaded_agents, loaded_from, first_list,
                first_built>>
  /\ last' = Call("get_loaded_agent_names", FALSE, None, FALSE, <<>>, <<>>, TRUE, NoList,
                  NoEntry,
                  IF loaded_agents = NoList THEN <<>> ELSE AgentNames(loaded_agents.items),
                  NoError)

(***************************************************************************)
(* The registry and its manifest file                                      *)
(***************************************************************************)

Entry(name, module, enabled, order) ==
  [name |-> name, module |-> module, enabled |-> enabled, order |-> order]

\* the manifests written to the registry's file: B (order 2), A (order 1) and
\* C (order 2), declared in this order; A is enabled, B and C are enabled or
\* disabled. In the manifest with B disabled and C enabled the first entry is
\* named C as well (the strict parser compares no names)
RegistryDocs ==
  { Doc(<<Entry(IF ~b /\ c THEN "C" ELSE "B", "mod_b", b, 2), Entry("A", "mod_a", TRUE, 1),
          Entry("C", "mod_c", c, 2)>>) :
      b \in BOOLEAN, c \in BOOLEAN }

RegistryFiles == RegistryDocs \cup {Content("malformed", <<>>)}

\* the names get_agent_config is asked for
LookupNames == {"C", "Z"}

NoCall ==
  [tick |-> 0, retry |-> FALSE, op |-> "none", force |-> FALSE, arg |-> None, parsed |-> FALSE,
   attempted |-> <<>>, raised |-> <<>>, ok |-> TRUE, list |-> NoList, entry |-> NoEntry,
   names |-> <<>>, err |-> NoError]

NoRequest == [kind |-> "none"]

\* no caller but the one whose calls are the actions
NoThreads == <<>>

\* AgentsRegistry.__init__: the file exists, nothing is cached
Init ==
  /\ file \in RegistryFiles
  /\ config = NoConfig
  /\ loaded_agents = NoList
  /\ loaded_from = NoConfig
  /\ first_list = 0
  /\ first_built = 0
  /\ last = NoCall
  /\ threads = NoThreads
  /\ handed = {}
  /\ req = NoRequest

\* the manifest file is rewritten
EditManifest ==
  /\ file' \in RegistryFiles \ {file}
  /\ UNCHANGED <<config, loaded_agents, loaded_from, first_list, first_built, last, req,
                threads, handed>>

LoadAgents == load_agents(FALSE)

ForceReload == load_agents(TRUE)

Reload == reload

GetAgentConfig == \E n \in LookupNames : get_agent_config(n)

GetLoadedAgentNames == get_loaded_agent_names

Next ==
  \/ EditManifest
  \/ LoadAgents
  \/ ForceReload
  \/ Reload
  \/ GetAgentConfig
  \/ GetLoadedAgentNames

Spec == Init /\ [][Next]_vars

(***************************************************************************)
(* One AgentsRegistry shared by concurrent callers                         *)
(***************************************************************************)

\* the callers: the class takes no lock, so the statements of their calls
\* interleave, each statement reading and writing _config and _loaded_agents
Callers == {"caller_1", "caller_2"}

\* the number of calls a caller makes
MaxCalls == 2

\* a caller: the statement it is at (pc) in the call it is in (op, force),
\* the calls it has made, whether one of them was a reload() or a forced
\* load, its locals agent_configs (the document they were read from) and
\* loaded_agents, and what its last call returned (a list and the document
\* it was loaded from) or raised
Thread(pc, op, force, calls, rebuilt, doc, list, ok, returned, from, err) ==
  [pc |-> pc, op |-> op, force |-> force, calls |-> calls, rebuilt |-> rebuilt, doc |-> doc,
   list |-> list, ok |-> ok, returned |-> returned, from |-> from, err |-> err]

IdleThread ==
  Thread("idle", "none", FALSE, 0, FALSE, NoConfig, NoList, TRUE, NoList, NoConfig, NoError)

\* the identity of a newly created list: one that no reference holds
NewListId ==
  LET live == {loaded_agents.id} \cup handed
                \cup {threads[t].list.id : t \in Callers}
                \cup {threads[t].returned.id : t \in Callers}
  IN  CHOOSE i \in 1..(Cardinality(live) + 1) : i \notin live /\ \A j \in 1..(i - 1) : j \in live

\* caller t goes to statement pc
Goto(t, pc) == threads' = [threads EXCEPT ![t].pc = pc]

\* the call of caller t returns list (loaded from document from) or raises err
Finish(t, ok, list, from, err) ==
  /\ threads' = [threads EXCEPT ![t] =
                   Thread("idle", @.op, @.force, @.calls, @.rebuilt, NoConfig, NoList, ok, list,
                          from, err)]
  /\ handed' = IF ok /\ threads[t].op = "load_agents" /\ ~threads[t].force /\ list # NoList
                 THEN handed \cup {list.id} ELSE handed

CanCall(t) == threads[t].pc = "idle" /\ threads[t].calls < MaxCalls

\* load_agents(force_reload) is called, line 47: the cache check
BeginLoadAgents(t, force_reload) ==
  /\ CanCall(t)
  /\ threads' = [threads EXCEPT ![t] =
                   Thread(IF CacheHit(loaded_agents, force_reload) THEN "log_cached" ELSE "parse",
                          "load_agents", force_reload, @.calls + 1, @.rebuilt \/ force_reload,
                          NoConfig, NoList, TRUE, NoList, NoConfig, NoError)]
  /\ UNCHANGED <<file, config, loaded_agents, loaded_from, first_list, first_built, last, req,
                 handed>>

\* line 48: len(self._loaded_agents), which raises TypeError on None
LogCached(t) ==
  /\ threads[t].pc = "log_cached"
  /\ IF loaded_agents = NoList
       THEN Finish(t, FALSE, NoList, NoConfig,
                   Exc("TypeError", "len_of_None", "", "", <<>>, <<>>, "none"))
       ELSE Goto(t, "return_cached") /\ handed' = handed
  /\ UNCHANGED <<file, config, loaded_agents, loaded_from, first_list, first_built, last, req>>

\* line 49: return self._loaded_agents, whatever it holds by now
ReturnCached(t) ==
  /\ threads[t].pc = "return_cached"
  /\ Finish(t, TRUE, loaded_agents, loaded_from, NoError)
  /\ UNCHANGED <<file, config, loaded_agents, loaded_from, first_list, first_built, last, req>>

\* reload() is called, line 119: self._config = None
BeginReload(t) ==
  /\ CanCall(t)
  /\ threads' = [threads EXCEPT ![t] =
                   Thread("clear_cache", "reload", TRUE, @.calls + 1, TRUE,
                          NoConfig, NoList, TRUE, NoList, NoConfig, NoError)]
  /\ config' = NoConfig
  /\ UNCHANGED <<file, loaded_agents, loaded_from, first_list, first_built, last, req, handed>>

\* lines 120-121: self._loaded_agents = None, then load_agents(force_reload=True),
\* whose cache check fails
ClearCache(t) ==
  /\ threads[t].pc = "clear_cache"
  /\ Goto(t, "parse")
  /\ loaded_agents' = NoList
  /\ loaded_from' = NoConfig
  /\ UNCHANGED <<file, config, first_list, first_built, last, req, handed>>

\* line 54: self._config = self.parser.parse()
ParseManifest(t) ==
  /\ threads[t].pc = "parse"
  /\ LET p == YAMLParser_parse(file)
     IN  IF p.ok
           THEN Goto(t, "read_config") /\ config' = p.doc /\ handed' = handed
           ELSE Finish(t, FALSE, NoList, NoConfig, p.err) /\ config' = config
  /\ UNCHANGED <<file, loaded_agents, loaded_from, first_list, first_built, last, req>>

\* line 57: agent_configs = self._config.get('agents', []), which raises
\* AttributeError on None
ReadConfig(t) ==
  /\ threads[t].pc = "read_config"
  /\ IF config = NoConfig
       THEN Finish(t, FALSE, NoList, NoConfig,
                   Exc("AttributeError", "get_of_None", "", "", <<>>, <<>>, "none"))
       ELSE /\ threads' = [threads EXCEPT ![t].pc = "load_each", ![t].doc = config]
            /\ handed' = handed
  /\ UNCHANGED <<file, config, loaded_agents, loaded_from, first_list, first_built, last, req>>

\* lines 60-82: filter, sort and load into the local list
LoadConfigs(t) ==
  /\ threads[t].pc = "load_each"
  /\ \E w \in Worlds :
       LET r == LoadEach(w, EnabledConfigs(Get(threads[t].doc, "agents", <<>>)),
                         <<>>, <<>>, <<>>)
       IN  IF r.ok
             THEN /\ threads' = [threads EXCEPT ![t].pc = "cache",
                                                ![t].list = ListObj(NewListId, r.agents)]
                  /\ handed' = handed
             ELSE Finish(t, FALSE, NoList, NoConfig, r.err)
  /\ UNCHANGED <<file, config, loaded_agents, loaded_from, first_list, first_built, last, req>>

\* lines 85-91: self._loaded_agents = loaded_agents; return loaded_agents
CacheAndReturn(t) ==
  /\ threads[t].pc = "cache"
  /\ loaded_agents' = threads[t].list
  /\ loaded_from' = threads[t].doc
  /\ Finish(t, TRUE, threads[t].list, threads[t].doc, NoError)
  /\ UNCHANGED <<file, config, first_list, first_built, last, req>>

\* the registry is constructed and shared; the manifest file is not rewritten
\* while the callers are at work
InitThreads ==
  /\ file \in RegistryFiles
  /\ config = NoConfig
  /\ loaded_agents = NoList
  /\ loaded_from = NoConfig
  /\ first_list = 0
  /\ first_built = 0
  /\ last = NoCall
  /\ req = NoRequest
  /\ threads = [t \in Callers |-> IdleThread]
  /\ handed = {}

CallLoadAgents == \E t \in Callers : BeginLoadAgents(t, FALSE)

CallForceReload == \E t \in Callers : BeginLoadAgents(t, TRUE)

CallReload == \E t \in Callers : BeginReload(t)

NextThreads ==
  \/ CallLoadAgents
  \/ CallForceReload
  \/ CallReload
  \/ \E t \in Callers : LogCached(t)
  \/ \E t \in Callers : ReturnCached(t)
  \/ \E t \in Callers : ClearCache(t)
  \/ \E t \in Callers : ParseManifest(t)
  \/ \E t \in Callers : ReadConfig(t)
  \/ \E t \in Callers : LoadConfigs(t)
  \/ \E t \in Callers : CacheAndReturn(t)

SpecThreads == InitThreads /\ [][NextThreads]_vars

(***************************************************************************)
(* SubAgentYAMLParser, ToolYAMLParser (custom_adk_registry/*/parser.py)     *)
(* and ToolsYAMLParser (search_agent/registry/tools_registry_parser.py)    *)
(***************************************************************************)

\* a duplicate check that looks at the name alone
RECURSIVE validate_duplicate_name_module_NameOnly(_, _, _)
validate_duplicate_name_module_NameOnly(agents, idx, seen) ==
  IF idx > Len(agents) THEN NoError
  ELSE LET name == Get(agents[idx], "name", None)
           module == Get(agents[idx], "module", None)
           hits == {t \in seen : t[1] = name}
       IN  IF ~Truthy(name) \/ ~Truthy(module)
             THEN validate_duplicate_name_module_NameOnly(agents, idx + 1, seen)
           ELSE IF hits # {}
             THEN Exc("ConfigurationError", "duplicate_name_module", name, module, <<>>,
                      <<(CHOOSE t \in hits : TRUE)[3], idx - 1>>, "none")
           ELSE validate_duplicate_name_module_NameOnly(agents, idx + 1,
                                                        seen \cup {<<name, module, idx - 1>>})

\* _validate_duplicate_name_module: seen maps (name, module) to the position
\* that declared it; positions are counted from 0
RECURSIVE validate_duplicate_name_module(_, _, _)
validate_duplicate_name_module(agents, idx, seen) ==
  IF idx > Len(agents) THEN NoError
  ELSE LET name == Get(agents[idx], "name", None)
           module == Get(agents[idx], "module", None)
           hits == {t \in seen : t[1] = name /\ t[2] = module}
       IN  IF ~Truthy(name) \/ ~Truthy(module)
             THEN validate_duplicate_name_module(agents, idx + 1, seen)
           ELSE IF hits # {}
             THEN Exc("ConfigurationError", "duplicate_name_module", name, module, <<>>,
                      <<(CHOOSE t \in hits : TRUE)[3], idx - 1>>, "none")
           ELSE validate_duplicate_name_module(agents, idx + 1,
                                               seen \cup {<<name, module, idx - 1>>})

\* the order check over the entries it is given: order_map maps an order
\* value to the name that declared it
RECURSIVE check_order_map(_, _)
check_order_map(agents, order_map) ==
  IF agents = <<>> THEN NoError
  ELSE LET agent == Head(agents)
           name == Get(agent, "name", "unknown")
           hits == {t \in order_map : t[1] = agent["order"]}
       IN  IF "order" \notin DOMAIN agent
             THEN check_order_map(Tail(agents), order_map)
           ELSE IF hits # {}
             THEN Exc("ConfigurationError", "duplicate_order", "", "",
                      <<(CHOOSE t \in hits : TRUE)[2], name>>, <<>>, "none")
           ELSE check_order_map(Tail(agents), order_map \cup {<<agent["order"], name>>})

\* an order check that does not leave the disabled entries out
validate_duplicate_order_AllEntries(agents) == check_order_map(agents, {})

\* _validate_duplicate_order: among the enabled entries only
validate_duplicate_order(agents) == check_order_map(SelectSeq(agents, IsEnabled), {})

\* _validate_agents / _validate_tools: names and modules first, then orders
validate_agents(agents) ==
  IF validate_duplicate_name_module(agents, 1, {}) # NoError
    THEN validate_duplicate_name_module(agents, 1, {})
    ELSE validate_duplicate_order(agents)

\* a lenient parser that reads the file whether or not it existed
LenientParser_parse_MissingIsFatal(file_exists, f) ==
  IF f.kind \in {"missing", "malformed"} THEN ParseError("unreadable", "", <<>>, <<>>)
  ELSE IF f.kind = "empty" THEN ParseError("empty", "", <<>>, <<>>)
  ELSE IF f.kind = "nokey" THEN ParseError("no_key", "", <<>>, <<>>)
  ELSE IF f.kind = "sequence" THEN SubscriptError
  ELSE IF f.kind = "notlist" THEN ParseError("not_a_list", "", <<>>, <<>>)
  ELSE IF validate_agents(f.agents) # NoError
    THEN [ok |-> FALSE, doc |-> NoConfig, err |-> validate_agents(f.agents)]
    ELSE Parsed(f)

\* a lenient parser that looks for the file at every parse
LenientParser_parse_LooksAgain(file_exists, f) ==
  IF f.kind = "missing" THEN Parsed(Doc(<<>>))
  ELSE IF f.kind = "malformed" THEN ParseError("unreadable", "", <<>>, <<>>)
  ELSE IF f.kind = "empty" THEN ParseError("empty", "", <<>>, <<>>)
  ELSE IF f.kind = "nokey" THEN ParseError("no_key", "", <<>>, <<>>)
  ELSE IF f.kind = "sequence" THEN SubscriptError
  ELSE IF f.kind = "notlist" THEN ParseError("not_a_list", "", <<>>, <<>>)
  ELSE IF validate_agents(f.agents) # NoError
    THEN [ok |-> FALSE, doc |-> NoConfig, err |-> validate_agents(f.agents)]
    ELSE Parsed(f)

\* SubAgentYAMLParser.parse and ToolYAMLParser.parse, which differ in the
\* name of the top-level key only; file_exists was set by __init__
LenientParser_parse(file_exists, f) ==
  IF ~file_exists THEN Parsed(Doc(<<>>))
  ELSE IF f.kind \in {"missing", "malformed"} THEN ParseError("unreadable", "", <<>>, <<>>)
  ELSE IF f.kind = "empty" THEN ParseError("empty", "", <<>>, <<>>)
  ELSE IF f.kind = "nokey" THEN ParseError("no_key", "", <<>>, <<>>)
  ELSE IF f.kind = "sequence" THEN SubscriptError
  ELSE IF f.kind = "notlist" THEN ParseError("not_a_list", "", <<>>, <<>>)
  ELSE IF validate_agents(f.agents) # NoError
    THEN [ok |-> FALSE, doc |-> NoConfig, err |-> validate_agents(f.agents)]
    ELSE Parsed(f)

\* ToolsYAMLParser.parse: the structure of the document, nothing about entries
ToolsYAMLParser_parse(f) ==
  IF f.kind \in {"missing", "malformed"} THEN ParseError("unreadable", "", <<>>, <<>>)
  ELSE IF f.kind = "empty" THEN ParseError("empty", "", <<>>, <<>>)
  ELSE IF f.kind = "nokey" THEN ParseError("no_key", "", <<>>, <<>>)
  ELSE IF f.kind = "sequence" THEN SubscriptError
  ELSE IF f.kind = "notlist" THEN ParseError("not_a_list", "", <<>>, <<>>)
  ELSE Parsed(f)

(***************************************************************************)
(* SubAgentRegistry (custom_adk_registry/sub_agents/registry.py)           *)
(***************************************************************************)

\* the loop of SubAgentRegistry.load_agents: config['name'] and
\* config['module'] are read before the try, so an absent key raises KeyError
RECURSIVE SubAgentLoadEach(_, _, _, _, _)
SubAgentLoadEach(w, todo, agents, attempted, raised) ==
  IF todo = <<>> THEN LoopResult(TRUE, agents, attempted, raised, NoError)
  ELSE LET cfg == Head(todo)
           r == SubAgentLoader_load_agent_from_module(
                  w, cfg["module"], cfg["name"],
                  Get(cfg, "tools", <<>>), Get(cfg, "sub_agents", <<>>))
       IN  IF "name" \notin DOMAIN cfg
             THEN LoopResult(FALSE, agents, attempted, raised,
                             Exc("KeyError", "name", "", "", <<>>, <<>>, "none"))
           ELSE IF "module" \notin DOMAIN cfg
             THEN LoopResult(FALSE, agents, attempted, raised,
                             Exc("KeyError", "module", "", "", <<>>, <<>>, "none"))
           ELSE IF r.ok
             THEN SubAgentLoadEach(w, Tail(todo), Append(agents, r.value),
                                   Append(attempted, cfg), raised)
             ELSE LoopResult(FALSE, agents, Append(attempted, cfg),
                             Append(raised, Failure(cfg, r.err)), WrapLoadError(cfg, r.err))

\* what a call on a manifest did: the document parse() returned, the agents
\* returned, the entries handed to the loader, the exception raised
Outcome(op, ok, doc, agents, attempted, raised, err) ==
  [op |-> op, ok |-> ok, doc |-> doc, agents |-> agents, attempted |-> attempted,
   raised |-> raised, err |-> err]

ParseOutcome(op, p) == Outcome(op, p.ok, p.doc, <<>>, <<>>, <<>>, p.err)

\* SubAgentRegistry.load_agents in namespace w
SubAgentRegistry_load_agents(file_exists, f, w) ==
  LET p == LenientParser_parse(file_exists, f)
      r == SubAgentLoadEach(w, EnabledConfigs(Get(p.doc, "agents", <<>>)), <<>>, <<>>, <<>>)
  IN  IF ~p.ok THEN ParseOutcome("SubAgentRegistry.load_agents", p)
      ELSE Outcome("SubAgentRegistry.load_agents", r.ok, p.doc,
                   IF r.ok THEN r.agents ELSE <<>>, r.attempted, r.raised, r.err)

(***************************************************************************)
(* ToolRegistry (custom_adk_registry/tools/registry.py)                    *)
(***************************************************************************)

\* the loop of ToolRegistry.load_tools: config['name'], config['module'] and
\* config['function'] are read before the try, so an absent key raises
\* KeyError. loads[k] tells whether the k-th call of the tool loader returns a
\* tool; when it raises, whatever it raises is wrapped into ToolLoadError
RECURSIVE ToolLoadEach(_, _, _, _, _)
ToolLoadEach(loads, todo, tools, attempted, raised) ==
  IF todo = <<>> THEN LoopResult(TRUE, tools, attempted, raised, NoError)
  ELSE LET cfg == Head(todo)
           missing == {k \in {"name", "module", "function"} : k \notin DOMAIN cfg}
           first_missing ==
             IF "name" \in missing THEN "name"
             ELSE IF "module" \in missing THEN "module" ELSE "function"
       IN  IF missing # {}
             THEN LoopResult(FALSE, tools, attempted, raised,
                             Exc("KeyError", first_missing, "", "", <<>>, <<>>, "none"))
           ELSE IF loads[Len(attempted) + 1]
             THEN ToolLoadEach(loads, Tail(todo),
                               Append(tools, ToolRef(cfg["module"], cfg["function"])),
                               Append(attempted, cfg), raised)
             ELSE LoopResult(FALSE, tools, Append(attempted, cfg),
                             Append(raised, [entry |-> cfg, kind |-> "Exception"]),
                             Exc("ToolLoadError", "failed_to_load", cfg["name"], cfg["module"],
                                 <<>>, <<>>, "Exception"))

\* ToolRegistry.load_tools
ToolRegistry_load_tools(file_exists, f, loads) ==
  LET p == LenientParser_parse(file_exists, f)
      r == ToolLoadEach(loads, EnabledConfigs(Get(p.doc, "agents", <<>>)), <<>>, <<>>, <<>>)
  IN  IF ~p.ok THEN ParseOutcome("ToolRegistry.load_tools", p)
      ELSE Outcome("ToolRegistry.load_tools", r.ok, p.doc,
                   IF r.ok THEN r.agents ELSE <<>>, r.attempted, r.raised, r.err)

(***************************************************************************)
(* Construction of the strict registries                                   *)
(***************************************************************************)

\* YAMLParser.__init__ and ToolsYAMLParser.__init__, run by the constructors
\* of AgentsRegistry and ToolsRegistry: a missing file is a ConfigurationError
StrictParser_init(op, file_exists) ==
  IF file_exists
    THEN Outcome(op, TRUE, NoConfig, <<>>, <<>>, <<>>, NoError)
    ELSE Outcome(op, FALSE, NoConfig, <<>>, <<>>, <<>>,
                 Exc("ConfigurationError", "not_found", "", "", <<>>, <<>>, "none"))

(***************************************************************************)
(* The parsers and the lenient registry on one manifest                    *)
(***************************************************************************)

\* the longest manifest
MaxEntries == 3

\* a disabled entry with an enabled tool and an enabled sub-agent of module n
DisabledParent ==
  [name |-> "c", module |-> "m", enabled |-> FALSE, order |-> 3,
   tools |-> <<[name |-> "t", module |-> "n", function |-> "helper", enabled |-> TRUE]>>,
   sub_agents |-> <<[name |-> "child", module |-> "n", enabled |-> TRUE]>>]

\* an enabled entry with a disabled tool, and with an enabled sub-agent of
\* module n that declares a sub-agent without an enabled flag, which in turn
\* declares an enabled tool; module "gone" is in no namespace
EnabledParent ==
  [name |-> "d", module |-> "m", enabled |-> TRUE, order |-> 4,
   tools |-> <<[name |-> "t", module |-> "gone", function |-> "helper", enabled |-> FALSE]>>,
   sub_agents |->
     <<[name |-> "child", module |-> "n", enabled |-> TRUE,
        sub_agents |->
          <<[name |-> "grandchild", module |-> "gone",
             tools |-> <<[name |-> "t", module |-> "gone", function |-> "helper",
                          enabled |-> TRUE]>>]>>]>>]

\* the entries of a manifest: complete entries, entries that declare no
\* order, an entry without a name, an entry without an enabled flag, a
\* tool entry, which declares a function, and two entries with nested entries
ManifestEntries ==
  { [name |-> n, module |-> "m", enabled |-> e, order |-> o] :
      n \in {"a", "b"}, e \in BOOLEAN, o \in {1, 1000} }
  \cup { [name |-> n, module |-> "m", enabled |-> e] : n \in {"a", "b"}, e \in BOOLEAN }
  \cup { [name |-> "a", module |-> "n", enabled |-> TRUE, order |-> 1],
         [module |-> "m", enabled |-> TRUE, order |-> 1],
         [name |-> "a", module |-> "m", order |-> 1],
         [name |-> "b", module |-> "n", function |-> "f", enabled |-> TRUE, order |-> 2],
         DisabledParent, EnabledParent }

ManifestFiles ==
  { Doc(s) : s \in UNION { [1..k -> ManifestEntries] : k \in 0..MaxEntries } }
  \cup { Content(k, <<>>) :
           k \in {"missing", "empty", "malformed", "nokey", "notlist", "sequence"} }

\* the namespaces the lenient registry may meet
ManifestWorlds ==
  { [m |-> a, n |-> b] :
      a \in {GoodModule, MissingModule, EmptyModule}, b \in {GoodModule, MissingModule} }

\* Path(config_path).exists() when the lenient parser was constructed
FileExists == file.kind # "missing"

InitManifest ==
  /\ file \in ManifestFiles
  /\ config = NoConfig
  /\ loaded_agents = NoList
  /\ loaded_from = NoConfig
  /\ first_list = 0
  /\ first_built = 0
  /\ last = NoCall
  /\ threads = NoThreads
  /\ handed = {}
  /\ req = NoRequest

\* one call on the manifest
Answer(outcome) ==
  /\ last.op = "none"
  /\ last' = outcome
  /\ UNCHANGED <<file, config, loaded_agents, loaded_from, first_list, first_built, req,
                threads, handed>>

SubAgentParse ==
  Answer(ParseOutcome("SubAgentYAMLParser.parse", LenientParser_parse(FileExists, file)))

ToolParse ==
  Answer(ParseOutcome("ToolYAMLParser.parse", LenientParser_parse(FileExists, file)))

\* the strict parsers are constructed only when the file exists
StrictParse ==
  /\ FileExists
  /\ Answer(ParseOutcome("YAMLParser.parse", YAMLParser_parse(file)))

ToolsStrictParse ==
  /\ FileExists
  /\ Answer(ParseOutcome("ToolsYAMLParser.parse", ToolsYAMLParser_parse(file)))

SubAgentLoadAgents ==
  \E w \in ManifestWorlds : Answer(SubAgentRegistry_load_agents(FileExists, file, w))

ToolLoadTools ==
  \E loads \in [1..MaxEntries -> BOOLEAN] :
    Answer(ToolRegistry_load_tools(FileExists, file, loads))

NewAgentsRegistry == Answer(StrictParser_init("AgentsRegistry.__init__", FileExists))

NewToolsRegistry == Answer(StrictParser_init("ToolsRegistry.__init__", FileExists))

NextManifest ==
  \/ SubAgentParse
  \/ ToolParse
  \/ StrictParse
  \/ ToolsStrictParse
  \/ SubAgentLoadAgents
  \/ ToolLoadTools
  \/ NewAgentsRegistry
  \/ NewToolsRegistry

SpecManifest == InitManifest /\ [][NextManifest]_vars

(***************************************************************************)
(* A lenient parser and its manifest file over time                        *)
(***************************************************************************)

LenientParsers == {"SubAgentYAMLParser", "ToolYAMLParser"}

\* what the file of a lenient parser may hold: nothing (no file), a manifest
\* of one or two entries, one with the same name and module twice, or
\* something that is no manifest
ParserFiles ==
  { Doc(<<Entry("a", "m", TRUE, 1)>>),
    Doc(<<Entry("a", "m", TRUE, 1), Entry("b", "m", FALSE, 2)>>),
    Doc(<<Entry("a", "m", TRUE, 1), Entry("a", "m", TRUE, 2)>>) }
  \cup { Content(k, <<>>) :
           k \in {"missing", "empty", "malformed", "nokey", "notlist", "sequence"} }

\* a parser object: its class and the file_exists its __init__ has set
ParserObj(class, file_exists) ==
  [kind |-> "parser", class |-> class, file_exists |-> file_exists]

\* the record of a parse() call on the parser object
ParserCall(class, p) ==
  [tick |-> 1 - last.tick, op |-> class, ok |-> p.ok, doc |-> p.doc, err |-> p.err]

\* no parser is constructed yet
InitParser ==
  /\ file \in ParserFiles
  /\ req = NoRequest
  /\ config = NoConfig
  /\ loaded_agents = NoList
  /\ loaded_from = NoConfig
  /\ first_list = 0
  /\ first_built = 0
  /\ last = NoCall
  /\ threads = NoThreads
  /\ handed = {}

\* SubAgentYAMLParser.__init__ / ToolYAMLParser.__init__
NewLenientParser ==
  /\ \E class \in LenientParsers : req' = ParserObj(class, FileExists)
  /\ UNCHANGED <<file, config, loaded_agents, loaded_from, first_list, first_built, last,
                threads, handed>>

\* the file is created or rewritten
WriteFile ==
  /\ file' \in ParserFiles \ {file, Content("missing", <<>>)}
  /\ UNCHANGED <<req, config, loaded_agents, loaded_from, first_list, first_built, last,
                threads, handed>>

\* the file is removed
RemoveFile ==
  /\ FileExists
  /\ file' = Content("missing", <<>>)
  /\ UNCHANGED <<req, config, loaded_agents, loaded_from, first_list, first_built, last,
                threads, handed>>

\* parse() on the parser constructed last
LenientParse ==
  /\ req.kind = "parser"
  /\ last' = ParserCall(req.class, LenientParser_parse(req.file_exists, file))
  /\ UNCHANGED <<file, req, config, loaded_agents, loaded_from, first_list, first_built,
                threads, handed>>

NextParser ==
  \/ NewLenientParser
  \/ WriteFile
  \/ RemoveFile
  \/ LenientParse

SpecParser == InitParser /\ [][NextParser]_vars

(***************************************************************************)
(* The loaders on one request                                              *)
(***************************************************************************)

Request(w, module_path, agent_name, tools, sub_agents) ==
  [w |-> w, module_path |-> module_path, agent_name |-> agent_name, tools |-> tools,
   sub_agents |-> sub_agents]

\* the modules whose discovery is tried: every way of having no attribute, a
\* plain object, or an agent named "wiki" or "other" under each attribute name
\* but "search"
AgentAttrValues == {Absent, PlainObject, AgentValue("wiki"), AgentValue("other")}

DiscoveryModules ==
  { Module("ok", [a \in AttrSet |-> IF a = "search" THEN Absent ELSE f[a]]) :
      f \in [AttrSet \ {"search"} -> AgentAttrValues] }

\* a module whose import raises something else than ImportError
BrokenModule == Module("Exception", NoAttrs)

\* a tools module: helper is a function; search is a function, a plain
\* object, or absent
ToolModules ==
  { Module("ok", [NoAttrs EXCEPT !["search"] = v, !["helper"] = Function]) :
      v \in {Function, PlainObject, Absent} }
  \cup {MissingModule}

\* a complete tool entry of module pkg_tools
ToolEntry(name, enabled, order) ==
  [name |-> name, module |-> "pkg_tools", function |-> name, enabled |-> enabled,
   order |-> order]

\* the tool lists of an entry: none, one tool, a disabled tool, a tool without
\* function, two tools declared against their order, and an incomplete tool
\* followed or preceded by a complete one
ToolLists ==
  { <<>>,
    <<[name |-> "search", module |-> "pkg_tools", function |-> "search", enabled |-> TRUE]>>,
    <<[name |-> "search", module |-> "pkg_tools", function |-> "search", enabled |-> FALSE]>>,
    <<[name |-> "search", module |-> "pkg_tools", enabled |-> TRUE]>>,
    <<ToolEntry("search", TRUE, 2), ToolEntry("helper", TRUE, 1)>>,
    <<[name |-> "search", module |-> "pkg_tools", enabled |-> TRUE, order |-> 1],
      ToolEntry("helper", TRUE, 2)>>,
    <<ToolEntry("search", TRUE, 1),
      [name |-> "helper", function |-> "helper", enabled |-> TRUE, order |-> 2]>>,
    <<[module |-> "pkg_tools", function |-> "search", enabled |-> TRUE, order |-> 2],
      ToolEntry("helper", FALSE, 1)>> }

SubAgentLists ==
  { <<>>,
    <<[name |-> "child", module |-> "pkg_child", enabled |-> TRUE]>>,
    <<[name |-> "child", module |-> "pkg_child", enabled |-> FALSE]>>,
    <<[name |-> "child", enabled |-> TRUE]>>,
    <<[name |-> "child", module |-> "pkg_child", enabled |-> TRUE,
       tools |-> <<[name |-> "search", module |-> "pkg_tools", function |-> "search",
                    enabled |-> TRUE]>>]>> }

AgentNamesAsked == {"wikipedia_agent", "wiki", "root"}

LoaderRequests ==
  { Request([pkg_main |-> m], "pkg_main", n, <<>>, <<>>) :
      m \in DiscoveryModules \cup {MissingModule, BrokenModule}, n \in AgentNamesAsked }
  \cup
  { Request([pkg_main |-> m, pkg_tools |-> t, pkg_child |-> c], "pkg_main", "wiki", ts, ss) :
      m \in {GoodModule, EmptyModule, MissingModule, BrokenModule},
      t \in ToolModules, c \in {GoodModule, EmptyModule, MissingModule},
      ts \in ToolLists, ss \in SubAgentLists }

InitLoader ==
  /\ req \in LoaderRequests
  /\ file = Content("missing", <<>>)
  /\ config = NoConfig
  /\ loaded_agents = NoList
  /\ loaded_from = NoConfig
  /\ first_list = 0
  /\ first_built = 0
  /\ last = NoCall
  /\ threads = NoThreads
  /\ handed = {}

\* what a call of a loader did: the agent returned or the exception raised,
\* and the instance found in the module as the call leaves it
Resolution(op, r) ==
  [op |-> op, ok |-> r.ok, value |-> r.value, err |-> r.err,
   found |-> Get(r, "found", r.value)]

AgentLoaderLoad ==
  /\ last.op = "none"
  /\ req.tools = <<>> /\ req.sub_agents = <<>>
  /\ last' = Resolution("AgentLoader.load_agent_from_module",
                        load_agent_from_module(req.w, req.module_path, req.agent_name))
  /\ UNCHANGED <<file, config, loaded_agents, loaded_from, first_list, first_built, req,
                threads, handed>>

SubAgentLoaderLoad ==
  /\ last.op = "none"
  /\ last' = Resolution("SubAgentLoader.load_agent_from_module",
                        SubAgentLoader_load_agent_from_module(
                          req.w, req.module_path, req.agent_name, req.tools, req.sub_agents))
  /\ UNCHANGED <<file, config, loaded_agents, loaded_from, first_list, first_built, req,
                threads, handed>>

NextLoader ==
  \/ AgentLoaderLoad
  \/ SubAgentLoaderLoad

SpecLoader == InitLoader /\ [][NextLoader]_vars

(***************************************************************************)
(* The tool loaders on one request                                         *)
(***************************************************************************)

\* the values of the attributes helper and search of a tools module
ToolAttrValues == {Absent, PlainObject, Function, FailingFunction}

ToolLoaderModules ==
  { Module("ok", [NoAttrs EXCEPT !["helper"] = h, !["search"] = s]) :
      h \in ToolAttrValues, s \in ToolAttrValues }
  \cup {MissingModule, BrokenModule}

\* the function names asked for; no module has an attribute root
FunctionNamesAsked == {"helper", "search", "root"}

ToolRequests ==
  { Request([pkg_tools |-> m], "pkg_tools", n, <<>>, <<>>) :
      m \in ToolLoaderModules, n \in FunctionNamesAsked }

InitTools ==
  /\ req \in ToolRequests
  /\ file = Content("missing", <<>>)
  /\ config = NoConfig
  /\ loaded_agents = NoList
  /\ loaded_from = NoConfig
  /\ first_list = 0
  /\ first_built = 0
  /\ last = NoCall
  /\ threads = NoThreads
  /\ handed = {}

\* search_agent.registry.tool_loader.ToolLoader
ToolLoaderLoad ==
  /\ last.op = "none"
  /\ last' = Resolution("ToolLoader.load_tool_from_module",
                        ToolLoader_load_tool_from_module(req.w, req.module_path, req.agent_name))
  /\ UNCHANGED <<file, config, loaded_agents, loaded_from, first_list, first_built, req,
                threads, handed>>

\* dynamic_adk_registry.tools.loader.ToolLoader
DynamicToolLoaderLoad ==
  /\ last.op = "none"
  /\ last' = Resolution("dynamic.ToolLoader.load_tool_from_module",
                        ToolLoader_load_tool_from_module(req.w, req.module_path, req.agent_name))
  /\ UNCHANGED <<file, config, loaded_agents, loaded_from, first_list, first_built, req,
                threads, handed>>

NextTools ==
  \/ ToolLoaderLoad
  \/ DynamicToolLoaderLoad

SpecTools == InitTools /\ [][NextTools]_vars

(***************************************************************************)
(* SubAgentLoader on a document whose entries are shared                   *)
(***************************************************************************)

\* yaml.safe_load makes one dict per mapping of the file, and an alias (*x)
\* is one more reference to the dict of its anchor (&x): the sub_agents list
\* of an entry holds references to entries, and an entry may be referenced
\* twice, or from below itself. Such a document is its entries by identity.
MaxEntryId == 3

EntryIds == 1..MaxEntryId

\* the nested calls of load_agent_from_module the interpreter allows before
\* it raises RecursionError (sys.getrecursionlimit() bounds the frames)
MaxDepth == 5

\* an entry whose sub_agents are references
RefEntry(name, module, enabled, sub_agents) ==
  [name |-> name, module |-> module, enabled |-> enabled, sub_agents |-> sub_agents]

\* what a load did: how often load_agent_from_module was called for each
\* entry, and the deepest nesting of these calls
Trace(visits, deepest) == [visits |-> visits, deepest |-> deepest]

NoTrace == Trace([i \in EntryIds |-> 0], 0)

RefResult(ok, value, err, trace) == [ok |-> ok, value |-> value, err |-> err, trace |-> trace]

\* the enabled entries among the referenced ones, sorted by order
RECURSIVE InsertRef(_, _, _)
InsertRef(g, s, x) ==
  IF s = <<>> THEN <<x>>
  ELSE IF OrderKey(g[Head(s)]) <= OrderKey(g[x])
    THEN <<Head(s)>> \o InsertRef(g, Tail(s), x)
    ELSE <<x>> \o s

RECURSIVE SortRefs(_, _, _)
SortRefs(g, todo, acc) ==
  IF todo = <<>> THEN acc ELSE SortRefs(g, Tail(todo), InsertRef(g, acc, Head(todo)))

EnabledRefs(g, refs) == SortRefs(g, SelectSeq(refs, LAMBDA i : IsEnabled(g[i])), <<>>)

RECURSIVE RefLoadAgent(_, _, _, _, _)
RECURSIVE RefLoadSubAgents(_, _, _, _, _, _, _)

\* the loop of load_sub_agents_for_agent over references; the calls it makes
\* are nested one deeper than the call it runs in
RefLoadSubAgents(w, g, todo, loaded_sub_agents, parent_agent_name, depth, trace) ==
  IF todo = <<>> THEN RefResult(TRUE, loaded_sub_agents, NoError, trace)
  ELSE LET sub_agent_config == g[Head(todo)]
           sub_agent_name == Get(sub_agent_config, "name", None)
           module_path == Get(sub_agent_config, "module", None)
           r == RefLoadAgent(w, g, Head(todo), depth + 1, trace)
       IN  IF ~Truthy(sub_agent_name) \/ ~Truthy(module_path)
             THEN RefLoadSubAgents(w, g, Tail(todo), loaded_sub_agents, parent_agent_name,
                                   depth, trace)
           ELSE IF ~r.ok
             THEN RefResult(FALSE, <<>>,
                            Exc("AgentLoadError", "failed_to_load_sub_agent", parent_agent_name,
                                module_path, <<sub_agent_name>>, <<>>, r.err.kind),
                            r.trace)
           ELSE RefLoadSubAgents(w, g, Tail(todo), Append(loaded_sub_agents, r.value),
                                 parent_agent_name, depth, r.trace)

\* load_agent_from_module for the entry with identity id, as the depth-th
\* nested call: import, tools, sub_agents, discovery
RefLoadAgent(w, g, id, depth, trace) ==
  LET e == g[id]
      called == Trace([trace.visits EXCEPT ![id] = @ + 1],
                      IF depth > trace.deepest THEN depth ELSE trace.deepest)
      module == ImportModule(w, e["module"])
      tools == Get(e, "tools", <<>>)
      loaded_tools ==
        IF tools # <<>> THEN load_tools_for_agent(w, tools, e["name"]) ELSE Returned(<<>>)
      loaded_sub_agents ==
        IF e["sub_agents"] # <<>>
          THEN RefLoadSubAgents(w, g, EnabledRefs(g, e["sub_agents"]), <<>>, e["name"], depth,
                                called)
          ELSE RefResult(TRUE, <<>>, NoError, called)
      d == SubAgentLoader_discover_agent(module, e["name"], e["module"], loaded_tools.value,
                                         loaded_sub_agents.value)
  IN  IF depth > MaxDepth
        THEN RefResult(FALSE, NoAgent,
                       Exc("RecursionError", "maximum_recursion_depth", "", "", <<>>, <<>>,
                           "none"),
                       trace)
      ELSE IF module.import # "ok"
        THEN RefResult(FALSE, NoAgent, ImportFailure(module.import, e["name"], e["module"]),
                       called)
      ELSE IF ~loaded_tools.ok THEN RefResult(FALSE, NoAgent, loaded_tools.err, called)
      ELSE IF ~loaded_sub_agents.ok
        THEN RefResult(FALSE, NoAgent, loaded_sub_agents.err, loaded_sub_agents.trace)
      ELSE RefResult(d.ok, d.value, d.err, loaded_sub_agents.trace)

\* the sub_agents an entry declares: none, one entry, two entries, one entry twice
RefLists == {<<>>, <<1>>, <<2>>, <<3>>, <<2, 3>>, <<2, 2>>}

\* the documents: entry 1 is the enabled top-level entry
RefDocs ==
  { <<RefEntry("A", "mod_a", TRUE, s1), RefEntry("B", "mod_b", b, s2),
      RefEntry("C", "mod_c", c, s3)>> :
      s1 \in RefLists, s2 \in RefLists, s3 \in RefLists, b \in BOOLEAN, c \in BOOLEAN }

RefRequests == { [kind |-> "refs", w |-> w, entries |-> g] : w \in Worlds, g \in RefDocs }

InitRefs ==
  /\ req \in RefRequests
  /\ file = Content("missing", <<>>)
  /\ config = NoConfig
  /\ loaded_agents = NoList
  /\ loaded_from = NoConfig
  /\ first_list = 0
  /\ first_built = 0
  /\ last = NoCall
  /\ threads = NoThreads
  /\ handed = {}

\* the registry's call of load_agent_from_module for the top-level entry
RefLoad ==
  /\ last.op = "none"
  /\ LET r == RefLoadAgent(req.w, req.entries, 1, 1, NoTrace)
     IN  last' = [op |-> "SubAgentLoader.load_agent_from_module", ok |-> r.ok,
                  value |-> r.value, err |-> r.err, visits |-> r.trace.visits,
                  deepest |-> r.trace.deepest]
  /\ UNCHANGED <<file, config, loaded_agents, loaded_from, first_list, first_built, req,
                 threads, handed>>

NextRefs == RefLoad

SpecRefs == InitRefs /\ [][NextRefs]_vars

(***************************************************************************)
(* Properties of the parsers and of the lenient registry                   *)
(***************************************************************************)

HasOrder(e) == "order" \in DOMAIN e

\* an entry that declares what its kind requires
CompleteTool(e) == {"name", "module", "function"} \subseteq DOMAIN e

CompleteSubAgent(e) == {"name", "module"} \subseteq DOMAIN e

\* the orderings of n positions
Orderings(n) == {f \in [1..n -> 1..n] : \A i, j \in 1..n : i # j => f[i] # f[j]}

\* got is the sequence en rearranged in ascending order value, the entries
\* without an order after those with one, ties in the order of en
InClaimedOrder(got, en) ==
  /\ Len(got) = Len(en)
  /\ \E f \in Orderings(Len(en)) :
       /\ \A i \in 1..Len(en) : got[i] = en[f[i]]
       /\ \A i, j \in 1..Len(en) : i < j =>
            /\ HasOrder(got[i]) /\ HasOrder(got[j]) => got[i]["order"] <= got[j]["order"]
            /\ HasOrder(got[i]) /\ HasOrder(got[j]) /\ got[i]["order"] = got[j]["order"]
                 => f[i] < f[j]
            /\ ~HasOrder(got[i]) => ~HasOrder(got[j]) /\ f[i] < f[j]

\* C1: a successful SubAgentRegistry.load_agents() returns one agent per
\* enabled entry of the manifest, the entries taken in ascending order value,
\* those without an order after all those with one, ties in declaration order.
C1_LoadReturnsEnabledInOrder ==
  (last.op = "SubAgentRegistry.load_agents" /\ last.ok)
    => /\ InClaimedOrder(last.attempted, SelectSeq(file.agents, IsEnabled))
       /\ Len(last.agents) = Len(last.attempted)
       /\ \A i \in 1..Len(last.agents) : last.agents[i].module = last.attempted[i]["module"]

LenientParses == {"SubAgentYAMLParser.parse", "ToolYAMLParser.parse"}

\* entries i < j are enabled and declare the same order value
DuplicateOrder(agents, i, j) ==
  /\ i < j
  /\ IsEnabled(agents[i]) /\ IsEnabled(agents[j])
  /\ HasOrder(agents[i]) /\ HasOrder(agents[j])
  /\ agents[i]["order"] = agents[j]["order"]

\* entries i < j declare the same name and the same module
SamePair(agents, i, j) ==
  /\ i < j
  /\ {"name", "module"} \subseteq DOMAIN agents[i] \cap DOMAIN agents[j]
  /\ agents[i]["name"] = agents[j]["name"]
  /\ agents[i]["module"] = agents[j]["module"]

Positions(agents) == 1..Len(agents)

\* the error is the duplicate-order error, naming two entries that collide
ReportsDuplicateOrder(agents, err) ==
  /\ err.kind = "ConfigurationError"
  /\ err.what = "duplicate_order"
  /\ \E i, j \in Positions(agents) :
       /\ DuplicateOrder(agents, i, j)
       /\ err.names = <<Get(agents[i], "name", "unknown"), Get(agents[j], "name", "unknown")>>

\* the names the message of an error mentions
Mentioned(err) == {err.name} \cup {err.names[k] : k \in DOMAIN err.names}

\* C7 as stated: the lenient parsers raise a ConfigurationError that names
\* both entries whenever two enabled entries declare the same order, and raise
\* the duplicate-order error for no other collision.
C7_DuplicateOrderAlwaysReported ==
  (last.op \in LenientParses /\ file.kind = "doc")
    => /\ (\E i, j \in Positions(file.agents) : DuplicateOrder(file.agents, i, j))
            => /\ ~last.ok
               /\ last.err.kind = "ConfigurationError"
               /\ \E i, j \in Positions(file.agents) :
                    /\ DuplicateOrder(file.agents, i, j)
                    /\ {Get(file.agents[i], "name", "unknown"),
                        Get(file.agents[j], "name", "unknown")} \subseteq Mentioned(last.err)
       /\ last.err.what = "duplicate_order" => ReportsDuplicateOrder(file.agents, last.err)

\* C7 as amended: they do so whenever two enabled entries declare the same
\* order and no two entries share a (name, module) pair; when two entries do,
\* parse() still raises ConfigurationError. The duplicate-order error is raised
\* for no collision in which an entry is disabled or declares no order.
C7_DuplicateOrderReported ==
  (last.op \in LenientParses /\ file.kind = "doc")
    => /\ (\E i, j \in Positions(file.agents) : DuplicateOrder(file.agents, i, j))
            => /\ ~last.ok
               /\ last.err.kind = "ConfigurationError"
               /\ (\A i, j \in Positions(file.agents) : ~SamePair(file.agents, i, j))
                    => ReportsDuplicateOrder(file.agents, last.err)
       /\ last.err.what = "duplicate_order" => ReportsDuplicateOrder(file.agents, last.err)

\* the error raised for two enabled entries of order 1, declared after a
\* disabled entry of order 1
C7_Witness ==
  /\ last.op = "SubAgentYAMLParser.parse"
  /\ last.err.what = "duplicate_order"
  /\ Len(file.agents) = 3
  /\ ~IsEnabled(file.agents[1]) /\ HasOrder(file.agents[1]) /\ file.agents[1]["order"] = 1
  /\ DuplicateOrder(file.agents, 2, 3) /\ file.agents[2]["order"] = 1

\* the error is the duplicate-pair error, reporting two positions (counted
\* from 0) that hold the same pair
ReportsDuplicatePair(agents, err) ==
  /\ err.kind = "ConfigurationError"
  /\ err.what = "duplicate_name_module"
  /\ \E i, j \in Positions(agents) :
       SamePair(agents, i, j) /\ err.positions = <<i - 1, j - 1>>

\* C8: the lenient parsers raise the duplicate-pair error, reporting both
\* positions, whenever two entries declare the same name and module, enabled
\* or not, and for no other manifest.
C8_DuplicatePairReported ==
  (last.op \in LenientParses /\ file.kind = "doc")
    => /\ (\E i, j \in Positions(file.agents) : SamePair(file.agents, i, j))
            => ~last.ok /\ ReportsDuplicatePair(file.agents, last.err)
       /\ last.err.what = "duplicate_name_module"
            => ReportsDuplicatePair(file.agents, last.err)

\* the error raised for two disabled entries that share their pair
C8_Witness ==
  /\ last.op = "ToolYAMLParser.parse"
  /\ last.err.what = "duplicate_name_module"
  /\ last.err.positions = <<0, 2>>
  /\ ~IsEnabled(file.agents[1]) /\ ~IsEnabled(file.agents[3])

AllParses == LenientParses \cup {"YAMLParser.parse", "ToolsYAMLParser.parse"}

\* C9: no parser returns a document in which two entries share a
\* (name, module) pair or two enabled entries share an order value.
C9_EveryParserChecksUniqueness ==
  (last.op \in AllParses /\ last.ok)
    => \A i, j \in Positions(last.doc.agents) :
         ~SamePair(last.doc.agents, i, j) /\ ~DuplicateOrder(last.doc.agents, i, j)

\* the lenient registry was called on a manifest that parse() accepted
LenientLoadParsed ==
  /\ last.op = "SubAgentRegistry.load_agents"
  /\ file.kind = "doc"
  /\ last.err.kind # "ConfigurationError"

\* C16: an enabled top-level entry without name or module is skipped by
\* SubAgentRegistry.load_agents: it is not handed to the loader, the call
\* fails only when the loader fails for a complete entry, and a call that
\* succeeds returns one agent per complete enabled entry.
C16_IncompleteEntrySkipped ==
  (/\ LenientLoadParsed
   /\ \E i \in Positions(file.agents) :
        IsEnabled(file.agents[i]) /\ ~CompleteSubAgent(file.agents[i]))
    => /\ \A k \in 1..Len(last.attempted) : CompleteSubAgent(last.attempted[k])
       /\ ~last.ok => last.raised # <<>>
       /\ last.ok =>
            Len(last.agents) =
              Len(SelectSeq(file.agents, LAMBDA e : IsEnabled(e) /\ CompleteSubAgent(e)))

RegistryErrorKinds ==
  {"ConfigurationError", "AgentNotFoundError", "AgentLoadError", "ToolLoadError"}

\* C17: every exception that leaves load_agents of a registry is of a
\* registry error kind.
C17_OnlyRegistryErrors ==
  (last.op = "SubAgentRegistry.load_agents" /\ ~last.ok)
    => last.err.kind \in RegistryErrorKinds

\* C18: when the manifest file does not exist, load of the lenient registries
\* returns an empty list without raising and hands nothing to the loader,
\* and the strict registries fail with ConfigurationError.
C18_MissingManifestPolicy ==
  file.kind = "missing"
    => /\ last.op \in {"SubAgentRegistry.load_agents", "ToolRegistry.load_tools"}
            => last.ok /\ last.agents = <<>> /\ last.attempted = <<>>
       /\ last.op \in {"AgentsRegistry.__init__", "ToolsRegistry.__init__"}
            => ~last.ok /\ last.err.kind = "ConfigurationError"
       /\ last.op \in LenientParses => last.ok /\ last.doc = Doc(<<>>)

\* the lenient registry of sub-agents has returned for a missing manifest
C18_Witness ==
  /\ file.kind = "missing"
  /\ last.op = "SubAgentRegistry.load_agents"
  /\ last.ok /\ last.agents = <<>>

\* C19: for a file that exists, parse() of each of the four parsers raises
\* ConfigurationError and returns no document when the content is empty,
\* cannot be parsed, lacks the top-level key (a mapping without it, or a
\* document that is no mapping), or holds no list under it.
C19_BadContentIsFatal ==
  (/\ last.op \in AllParses
   /\ file.kind \in {"empty", "malformed", "nokey", "notlist", "sequence"})
    => /\ ~last.ok
       /\ last.err.kind = "ConfigurationError"
       /\ last.doc = NoConfig

\* the entries without those whose enabled flag is false or absent, and
\* without what is nested under them, at every depth
RECURSIVE WithoutDisabled(_)
WithoutDisabled(entries) ==
  LET en == SelectSeq(entries, IsEnabled)
  IN  [i \in 1..Len(en) |->
         [k \in DOMAIN en[i] |->
            IF k \in {"tools", "sub_agents"} THEN WithoutDisabled(en[i][k]) ELSE en[i][k]]]

\* an entry whose enabled flag is false or absent is declared in the entries,
\* at some depth
RECURSIVE DeclaresDisabled(_)
DeclaresDisabled(entries) ==
  \E i \in 1..Len(entries) :
    \/ ~IsEnabled(entries[i])
    \/ DeclaresDisabled(Get(entries[i], "tools", <<>>))
    \/ DeclaresDisabled(Get(entries[i], "sub_agents", <<>>))

\* C22: SubAgentRegistry.load_agents hands no entry to the loader whose
\* enabled flag is false or absent, and what it returns or raises is what it
\* returns or raises, in some namespace, for the manifest without the disabled
\* entries and without everything nested under them: no module named by a
\* disabled entry, or below one, is imported, whether or not it can be.
C22_DisabledNeverLoaded ==
  (LenientLoadParsed /\ DeclaresDisabled(file.agents))
    => /\ \A k \in 1..Len(last.attempted) : IsEnabled(last.attempted[k])
       /\ \E w \in ManifestWorlds :
            LET r == SubAgentRegistry_load_agents(TRUE, Doc(WithoutDisabled(file.agents)), w)
            IN  /\ r.ok = last.ok
                /\ r.agents = last.agents
                /\ r.err = last.err
                /\ r.attempted = WithoutDisabled(last.attempted)

\* a load that returned the agent of the entry whose disabled tool and
\* sub-agent without enabled flag name a module that cannot be imported, next
\* to a disabled entry with enabled nested entries
C22_Witness ==
  /\ last.op = "SubAgentRegistry.load_agents"
  /\ last.ok
  /\ file.agents = <<DisabledParent, EnabledParent>>
  /\ Len(last.agents) = 1
  /\ last.agents[1].tools = <<>>
  /\ Len(last.agents[1].sub_agents) = 1
  /\ last.agents[1].sub_agents[1].module = "n"

\* a step that is a parse() of the lenient parser
LenientParseStep == req.kind = "parser" /\ last'.tick # last.tick

\* C30: the constructor of a lenient parser sets file_exists to whether the
\* file is there at that moment, and no parse() changes it. Every parse() of
\* a parser constructed without its file returns the empty document, whatever
\* the file holds by then; a parse() of a parser constructed with its file
\* raises ConfigurationError when the file is no longer there.
C30_MissingDecidedAtConstruction ==
  [][/\ req' # req => req'.file_exists = FileExists
     /\ LenientParseStep
          => /\ req' = req
             /\ ~req.file_exists => last'.ok /\ last'.doc = Doc(<<>>)
             /\ (req.file_exists /\ ~FileExists)
                  => /\ ~last'.ok
                     /\ last'.err.kind = "ConfigurationError"
                     /\ last'.err.what = "unreadable"]_vars

\* a parser constructed without its file has returned the empty document with
\* a manifest of two entries in the file
C30_Witness ==
  /\ req.kind = "parser"
  /\ ~req.file_exists
  /\ Len(file.agents) = 2
  /\ last.op \in LenientParsers
  /\ last.ok
  /\ last.doc = Doc(<<>>)

(***************************************************************************)
(* Properties of the loaders                                               *)
(***************************************************************************)

\* the module the request names
MainModule == ImportModule(req.w, req.module_path)

NoAgentIn(module) == \A a \in AttrSet : ~IsAgent(module, a)

DiscoveryReached ==
  /\ last.op # "none"
  /\ MainModule.import = "ok"
  /\ last.ok \/ last.err.what \in {"multiple", "no_agent"}

\* an Agent is held by the attribute named exactly agent_name
ExactMatch == HasAttr(MainModule, req.agent_name) /\ IsAgent(MainModule, req.agent_name)

\* the public attributes ending in _agent that hold an Agent
Candidates ==
  {a \in AttrSet : EndsWithAgent(a) /\ ~StartsWithUnderscore(a) /\ IsAgent(MainModule, a)}

\* agent_name is the attribute name or the embedded name of candidate a
Matches(a) == a = req.agent_name \/ MainModule.attrs[a].name = req.agent_name

\* the value returned is the instance held by attribute a, or made from it
IsInstanceOf(v, a) ==
  /\ v.module = req.module_path
  /\ v.attr = a
  /\ v.name = MainModule.attrs[a].name

\* C11: when no Agent is held by an attribute named agent_name and exactly one
\* public attribute ending in _agent holds an Agent, discovery returns that
\* instance, whether or not agent_name matches its attribute or embedded name.
C11_SingleCandidateReturned ==
  (DiscoveryReached /\ ~ExactMatch /\ Cardinality(Candidates) = 1)
    => /\ last.ok
       /\ \A a \in Candidates : IsInstanceOf(last.value, a)
       /\ (req.tools = <<>> /\ req.sub_agents = <<>>) => ~last.value.rebuilt

\* asked for "root", which is a plain object of the module, the loader
\* returns the agent named "other" held by summarizing_agent
C11_Witness ==
  /\ last.op = "AgentLoader.load_agent_from_module"
  /\ last.ok
  /\ req.agent_name = "root"
  /\ MainModule.attrs["root"] = PlainObject
  /\ Candidates = {"summarizing_agent"}
  /\ last.value.attr = "summarizing_agent" /\ last.value.name = "other"

\* the call failed for ambiguity, its message listing every candidate
FailsAsAmbiguous ==
  /\ ~last.ok
  /\ last.err.kind = "AgentLoadError"
  /\ last.err.what = "multiple"
  /\ {last.err.names[k] : k \in DOMAIN last.err.names} = Candidates
  /\ Len(last.err.names) = Cardinality(Candidates)

\* C12 as stated: with two or more candidates, none matching agent_name by
\* attribute name or embedded name, discovery fails with AgentLoadError listing
\* all candidates and returns none of them.
C12_AmbiguousAlwaysFails ==
  (DiscoveryReached /\ Cardinality(Candidates) >= 2 /\ \A a \in Candidates : ~Matches(a))
    => FailsAsAmbiguous

\* C12 as amended: the same when, in addition, no Agent is held by an
\* attribute named exactly agent_name; when one is, that instance is returned,
\* which is none of the candidates either.
C12_AmbiguousFails ==
  (DiscoveryReached /\ Cardinality(Candidates) >= 2 /\ \A a \in Candidates : ~Matches(a))
    => /\ ~ExactMatch => FailsAsAmbiguous
       /\ ExactMatch => last.ok /\ IsInstanceOf(last.value, req.agent_name)
       /\ last.ok => last.value.attr \notin Candidates

\* asked for "root", which holds no agent, in a module with two candidates
C12_Witness ==
  /\ last.op = "SubAgentLoader.load_agent_from_module"
  /\ ~last.ok /\ last.err.what = "multiple"
  /\ req.agent_name = "root"
  /\ ~ExactMatch
  /\ last.err.names = <<"summarizing_agent", "wikipedia_agent">>

\* the nested entries of the request that are enabled and complete
ResolvedToolEntries == SelectSeq(req.tools, LAMBDA e : IsEnabled(e) /\ CompleteTool(e))

ResolvedSubEntries == SelectSeq(req.sub_agents, LAMBDA e : IsEnabled(e) /\ CompleteSubAgent(e))

\* got holds one tool per entry of en, the entries taken in ascending order
ToolsInOrder(got, en) ==
  /\ Len(got) = Len(en)
  /\ \E f \in Orderings(Len(en)) :
       /\ \A i \in 1..Len(en) : got[i] = ToolRef(en[f[i]]["module"], en[f[i]]["function"])
       /\ \A i, j \in 1..Len(en) :
            (i < j /\ HasOrder(en[f[i]]) /\ HasOrder(en[f[j]]))
              => en[f[i]]["order"] <= en[f[j]]["order"]

\* got holds one agent per entry of en, found in the module of the entry
ChildrenInOrder(got, en) ==
  /\ Len(got) = Len(en)
  /\ \E f \in Orderings(Len(en)) :
       /\ \A i \in 1..Len(en) :
            /\ got[i].module = en[f[i]]["module"]
            /\ IsAgent(ImportModule(req.w, en[f[i]]["module"]), got[i].attr)
       /\ \A i, j \in 1..Len(en) :
            (i < j /\ HasOrder(en[f[i]]) /\ HasOrder(en[f[j]]))
              => en[f[i]]["order"] <= en[f[j]]["order"]

\* v is an instance found in the module of the request, as the module holds it
Pristine(v) ==
  \E a \in AttrSet :
    IsAgent(MainModule, a) /\ v = AgentObj(req.module_path, a, MainModule.attrs[a].name)

SubAgentLoaderReturned == last.op = "SubAgentLoader.load_agent_from_module" /\ last.ok

\* C13: when a nested tool or sub-agent was resolved, the loader returns a new
\* instance with the model, name, description and instruction of the one
\* discovered, whose tools are exactly the resolved tools in ascending order
\* and whose sub_agents are exactly the resolved sub-agents; the discovered
\* instance is left as the module holds it.
C13_RebuiltWithResolved ==
  (SubAgentLoaderReturned /\ (ResolvedToolEntries # <<>> \/ ResolvedSubEntries # <<>>))
    => /\ last.value.rebuilt
       /\ last.value # last.found
       /\ Pristine(last.found)
       /\ last.value.model = last.found.model
       /\ last.value.name = last.found.name
       /\ last.value.description = last.found.description
       /\ last.value.instruction = last.found.instruction
       /\ ToolsInOrder(last.value.tools, ResolvedToolEntries)
       /\ ChildrenInOrder(last.value.sub_agents, ResolvedSubEntries)

\* two tools declared against their order and a sub-agent with a tool of its
\* own: the new instance has the tools in order and the rebuilt sub-agent
C13_Witness ==
  /\ SubAgentLoaderReturned
  /\ Len(req.tools) = 2 /\ Get(req.tools[1], "name", None) = "search"
  /\ last.value.tools = <<ToolRef("pkg_tools", "helper"), ToolRef("pkg_tools", "search")>>
  /\ Len(last.value.sub_agents) = 1
  /\ last.value.sub_agents[1].rebuilt
  /\ ~last.found.rebuilt

\* C14: when no tool and no sub-agent is resolved (none declared, or every
\* declared one disabled or incomplete), the loader returns the instance found
\* in the module, with its own tools and sub_agents, and rebuilds nothing.
C14_NothingResolvedNoRebuild ==
  (SubAgentLoaderReturned /\ ResolvedToolEntries = <<>> /\ ResolvedSubEntries = <<>>)
    => /\ last.value = last.found
       /\ Pristine(last.value)
       /\ ~last.value.rebuilt
       /\ last.value.tools = <<ToolRef(req.module_path, "own_tool")>>
       /\ last.value.sub_agents = <<>>

\* a tool without function and a disabled sub-agent were declared
C14_Witness ==
  /\ SubAgentLoaderReturned
  /\ Len(req.tools) = 1 /\ IsEnabled(req.tools[1]) /\ ~CompleteTool(req.tools[1])
  /\ Len(req.sub_agents) = 1 /\ ~IsEnabled(req.sub_agents[1])
  /\ last.value = last.found /\ ~last.value.rebuilt

\* C15: an enabled tool entry without name, module or function is skipped:
\* the call returns or raises what it does for the tool list without that
\* entry, and the tools of a returned agent are those of the complete enabled
\* entries, in order.
C15_IncompleteToolSkipped ==
  (/\ last.op = "SubAgentLoader.load_agent_from_module"
   /\ \E i \in 1..Len(req.tools) : IsEnabled(req.tools[i]) /\ ~CompleteTool(req.tools[i]))
    => /\ LET r == SubAgentLoader_load_agent_from_module(
                     req.w, req.module_path, req.agent_name,
                     SelectSeq(req.tools, CompleteTool), req.sub_agents)
          IN  last.ok = r.ok /\ last.value = r.value /\ last.err = r.err
       /\ (last.ok /\ last.value.rebuilt)
            => ToolsInOrder(last.value.tools, ResolvedToolEntries)
       /\ (~last.ok /\ last.err.names # <<>>) => last.err.names[1] # None

\* a tool without function declared before a complete one: the agent returned
\* has the complete one only
C15_Witness ==
  /\ SubAgentLoaderReturned
  /\ Len(req.tools) = 2
  /\ IsEnabled(req.tools[1]) /\ "function" \notin DOMAIN req.tools[1]
  /\ last.value.tools = <<ToolRef("pkg_tools", "helper")>>

ToolLoads == {"ToolLoader.load_tool_from_module", "dynamic.ToolLoader.load_tool_from_module"}

\* C23: the error kind ToolLoader.load_tool_from_module raises for a module
\* that cannot be found differs from every kind it raises when the module
\* imports and the function is absent, is not callable, or raises when called.
C23_NotFoundIsDistinctKind ==
  (last.op \in ToolLoads /\ ~last.ok /\ MainModule.import = "ImportError")
    => \A r \in ToolRequests :
         LET x == ToolLoader_load_tool_from_module(r.w, r.module_path, r.agent_name)
         IN  (ImportModule(r.w, r.module_path).import = "ok" /\ ~x.ok)
               => x.err.kind # last.err.kind

\* the tool of entry e cannot be loaded: its module cannot be imported, or
\* holds no function under the name
ToolUnresolvable(e) ==
  LET m == ImportModule(req.w, e["module"])
  IN  m.import # "ok" \/ ~HasAttr(m, e["function"]) \/ m.attrs[e["function"]].kind # "function"

SomeToolFails(tools) ==
  \E i \in 1..Len(tools) :
    IsEnabled(tools[i]) /\ CompleteTool(tools[i]) /\ ToolUnresolvable(tools[i])

\* the sub-agent of entry e cannot be loaded: its module cannot be imported,
\* one of its tools cannot be loaded, or its module holds no agent to discover
SubAgentUnresolvable(e) ==
  LET m == ImportModule(req.w, e["module"])
  IN  \/ m.import # "ok"
      \/ SomeToolFails(Get(e, "tools", <<>>))
      \/ ~discover_agent(m, e["name"], e["module"]).ok

SomeSubAgentFails ==
  \E i \in 1..Len(req.sub_agents) :
    /\ IsEnabled(req.sub_agents[i]) /\ CompleteSubAgent(req.sub_agents[i])
    /\ SubAgentUnresolvable(req.sub_agents[i])

DiscoveryFails == ~discover_agent(MainModule, req.agent_name, req.module_path).ok

\* the steps of a failed call, by the error each raises
FailedAt(err) ==
  IF err.what \in {"failed_to_import", "error_importing"} THEN "import"
  ELSE IF err.what \in {"failed_to_import_tool", "failed_to_load_tool"} THEN "tools"
  ELSE IF err.what = "failed_to_load_sub_agent" THEN "sub_agents"
  ELSE IF err.what \in {"multiple", "no_agent"} THEN "discovery"
  ELSE "none"

\* C25: SubAgentLoader.load_agent_from_module reports the failure of the
\* earliest step that fails, the steps being: import of the module, the
\* tools, the sub_agents, discovery. A failing import is reported whatever
\* else would fail, a failing tool in preference to a failing sub-agent, both
\* in preference to a failing discovery; the call returns only when no step
\* fails.
C25_EarliestFailureReported ==
  last.op = "SubAgentLoader.load_agent_from_module"
    => LET step ==
             IF MainModule.import # "ok" THEN "import"
             ELSE IF SomeToolFails(req.tools) THEN "tools"
             ELSE IF SomeSubAgentFails THEN "sub_agents"
             ELSE IF DiscoveryFails THEN "discovery"
             ELSE "none"
       IN  /\ last.ok = (step = "none")
           /\ FailedAt(last.err) = step
           /\ step = "tools" =>
                /\ last.err.name = req.agent_name
                /\ \E i \in 1..Len(req.tools) :
                     /\ IsEnabled(req.tools[i]) /\ CompleteTool(req.tools[i])
                     /\ ToolUnresolvable(req.tools[i])
                     /\ last.err.names = <<req.tools[i]["name"]>>
           /\ step = "sub_agents" =>
                /\ last.err.name = req.agent_name
                /\ last.err.names = <<"child">>

\* a tool, a sub-agent and discovery would all fail: the tool is reported
C25_Witness ==
  /\ last.op = "SubAgentLoader.load_agent_from_module"
  /\ MainModule.import = "ok"
  /\ SomeToolFails(req.tools) /\ SomeSubAgentFails /\ DiscoveryFails
  /\ ~last.ok /\ last.err.what = "failed_to_import_tool"
  /\ last.err.names = <<"search">>

\* every step before discovery succeeds for the request: the call gets as
\* far as discovery in the module it names
ReachesDiscovery ==
  /\ last.op \in {"AgentLoader.load_agent_from_module", "SubAgentLoader.load_agent_from_module"}
  /\ MainModule.import = "ok"
  /\ ~SomeToolFails(req.tools)
  /\ ~SomeSubAgentFails

\* C26: when the attribute of the module named exactly agent_name holds an
\* Agent, discovery of either loader returns that instance (the one the module
\* holds when no tool or sub-agent was loaded, else the one made from it),
\* however many candidates the module has, and does not raise.
C26_ExactMatchFirst ==
  (ReachesDiscovery /\ ExactMatch)
    => /\ last.ok
       /\ IsInstanceOf(last.value, req.agent_name)
       /\ IsInstanceOf(last.found, req.agent_name)
       /\ (req.tools = <<>> /\ req.sub_agents = <<>>)
            => last.value = AgentObj(req.module_path, req.agent_name,
                                     MainModule.attrs[req.agent_name].name)

\* asked for "root", which holds an Agent, in a module with two candidates
\* that do not match the name
C26_Witness ==
  /\ last.op = "AgentLoader.load_agent_from_module"
  /\ req.agent_name = "root"
  /\ ExactMatch
  /\ Candidates = {"summarizing_agent", "wikipedia_agent"}
  /\ \A a \in Candidates : ~Matches(a)
  /\ last.ok /\ last.value.attr = "root"

\* the public attributes of the module that hold an Agent
PublicAgents == {a \in AttrSet : ~StartsWithUnderscore(a) /\ IsAgent(MainModule, a)}

\* the place of an attribute name in the sorted list of names
NameOrder(a) == CHOOSE i \in 1..Len(AttrNames) : AttrNames[i] = a

\* C27: when no Agent is held by the attribute named agent_name and the
\* module has no candidate (no public attribute ending in _agent that holds
\* an Agent), discovery returns the Agent held by the first public attribute,
\* in the order of the attribute names, that holds one, whatever its embedded
\* name; it raises AgentLoadError exactly when no public attribute holds one.
C27_FallbackToPublicScan ==
  (ReachesDiscovery /\ ~ExactMatch /\ Candidates = {})
    => IF PublicAgents = {}
         THEN /\ ~last.ok
              /\ last.err.kind = "AgentLoadError"
              /\ last.err.what = "no_agent"
         ELSE /\ last.ok
              /\ last.value.attr \in PublicAgents
              /\ IsInstanceOf(last.value, last.value.attr)
              /\ \A b \in PublicAgents : NameOrder(last.value.attr) <= NameOrder(b)

\* asked for "wiki": helper and root hold Agents, root's is named "wiki",
\* and the loader returns helper's
C27_Witness ==
  /\ last.op = "AgentLoader.load_agent_from_module"
  /\ req.agent_name = "wiki"
  /\ Candidates = {}
  /\ PublicAgents = {"helper", "root"}
  /\ MainModule.attrs["root"].name = "wiki"
  /\ last.ok /\ last.value.attr = "helper" /\ last.value.name = "other"

\* the entries of the document reachable from the top-level entry through
\* enabled references
RECURSIVE ReachableRefs(_, _)
ReachableRefs(g, seen) ==
  LET more == {j \in EntryIds :
                 \E i \in seen : IsEnabled(g[j]) /\ \E k \in 1..Len(g[i].sub_agents) :
                   g[i].sub_agents[k] = j}
  IN  IF more \subseteq seen THEN seen ELSE ReachableRefs(g, seen \cup more)

\* C28: in one load, load_agent_from_module is called at most once for each
\* entry of the document, its calls are nested no deeper than the document
\* has entries, and the load returns an agent or raises a registry error.
C28_EachEntryResolvedOnce ==
  last.op = "SubAgentLoader.load_agent_from_module"
    => /\ \A i \in EntryIds : last.visits[i] <= 1
       /\ last.deepest <= Cardinality(ReachableRefs(req.entries, {1}))
       /\ ~last.ok => last.err.kind \in RegistryErrorKinds

(***************************************************************************)
(* Properties of AgentsRegistry                                            *)
(***************************************************************************)

\* a step that is a call of the registry
CallStep == last'.tick # last.tick

Loads == {"load_agents", "reload"}

\* the module paths of a sequence of entries or of agents
ModulesOf(s) == [i \in 1..Len(s) |-> s[i].module]

IsPrefix(s, t) == Len(s) <= Len(t) /\ \A i \in 1..Len(s) : s[i] = t[i]

NoRepeats(s) == \A i, j \in 1..Len(s) : i # j => s[i] # s[j]

\* the modules of the enabled entries of a registry manifest in the order
\* their order values ask for: A (1), then B and C (both 2, B declared first)
ExpectedModules(doc) ==
  SelectSeq(<<"mod_a", "mod_b", "mod_c">>, LAMBDA m :
    \E i \in 1..Len(doc.agents) : doc.agents[i].module = m /\ doc.agents[i].enabled)

\* C2 as stated: once a load has succeeded, every load_agents() without
\* force_reload, with no reload() since, returns the list object of that first
\* load, without parsing the manifest and without calling the loader.
C2_SameListSinceReload ==
  [][(CallStep /\ last'.op = "load_agents" /\ ~last'.force /\ first_list # 0)
       => /\ last'.ok
          /\ last'.list.id = first_list
          /\ ~last'.parsed
          /\ last'.attempted = <<>>]_vars

\* C2 as amended: once a load has succeeded, every load_agents() without
\* force_reload, with neither a reload() nor a load_agents(force_reload=True)
\* since, returns the list object of that first load, whatever the manifest
\* file holds by then, without parsing the manifest and without calling the
\* loader, and leaves the registry as it was.
C2_SameListSinceRebuild ==
  [][(CallStep /\ last'.op = "load_agents" /\ ~last'.force /\ first_built # 0)
       => /\ last'.ok
          /\ last'.list.id = first_built
          /\ last'.list = loaded_agents
          /\ ~last'.parsed
          /\ last'.attempted = <<>>
          /\ UNCHANGED <<config, loaded_agents>>]_vars

\* a load_agents() answered from the cache although the file now holds
\* another manifest than the one the list was loaded from
C2_Witness ==
  /\ last.op = "load_agents" /\ ~last.force /\ last.ok /\ ~last.parsed
  /\ last.list.id = first_built /\ first_built # 0
  /\ file # loaded_from
  /\ Len(last.list.items) = 2

\* C3: every reload() parses the manifest, whatever was cached, and loads
\* the enabled entries of the file as it is at the call, in order, from the
\* first one; when it returns, the list is a new one holding exactly these
\* entries' agents, and it is what the registry caches.
C3_ReloadReflectsManifest ==
  [][(CallStep /\ last'.op = "reload")
       => /\ last'.parsed
          /\ file.kind = "doc"
               => /\ config' = file
                  /\ IsPrefix(ModulesOf(last'.attempted), ExpectedModules(file))
          /\ last'.ok
               => /\ file.kind = "doc"
                  /\ ModulesOf(last'.attempted) = ExpectedModules(file)
                  /\ ModulesOf(last'.list.items) = ExpectedModules(file)
                  /\ last'.list.id \notin {0, loaded_agents.id}
                  /\ loaded_agents' = last'.list
          /\ ~last'.ok => loaded_agents' = NoList]_vars

\* the example: with A and B enabled and C disabled a load returned [A, B];
\* B was disabled, and reload() returned [A] (the new list got identity 2,
\* so a list with identity 1 was still held when reload() was called)
C3_Witness ==
  /\ last.op = "reload" /\ last.ok
  /\ ModulesOf(last.list.items) = <<"mod_a">>
  /\ ExpectedModules(file) = <<"mod_a">>
  /\ last.list.id = 2 /\ first_list = 2

\* C4: when the loader raises for an entry during a load, the call raises
\* AgentLoadError naming that entry's name and module, with the loader's
\* exception as its cause; it returns no list, the loader raised only once,
\* and the failing entry is the last one handed to the loader, the entries
\* before it being those that precede it in sorted order.
C4_FailureAborts ==
  last.raised # <<>>
    => /\ ~last.ok
       /\ last.list = NoList
       /\ Len(last.raised) = 1
       /\ last.err.kind = "AgentLoadError"
       /\ last.err.name = last.raised[1].entry.name
       /\ last.err.module = last.raised[1].entry.module
       /\ last.err.cause = last.raised[1].kind
       /\ last.err.cause \in {"AgentNotFoundError", "AgentLoadError"}
       /\ last.attempted[Len(last.attempted)] = last.raised[1].entry
       /\ IsPrefix(ModulesOf(last.attempted), ExpectedModules(config))

\* a load that raised for B, after A was loaded and with C still to come
C4_Witness ==
  /\ last.raised # <<>>
  /\ last.err.name = "B"
  /\ ModulesOf(last.attempted) = <<"mod_a", "mod_b">>
  /\ ExpectedModules(config) = <<"mod_a", "mod_b", "mod_c">>

\* C5: the cached list is absent, or it holds the agents of all the enabled
\* entries of the document one successful load parsed, in order.
C5_CacheIsComplete ==
  loaded_agents # NoList
    => /\ loaded_from.kind = "doc"
       /\ ModulesOf(loaded_agents.items) = ExpectedModules(loaded_from)

\* a cached list that survived a forced load which failed on its second entry
C5_Witness ==
  /\ loaded_agents # NoList
  /\ last.op = "load_agents" /\ last.force /\ ~last.ok
  /\ Len(last.attempted) = 2
  /\ Len(loaded_agents.items) = 3

\* what a load from scratch does: it parses, and hands the enabled entries
\* of the file to the loader in order from the first one, all of them when it
\* returns
FromScratch ==
  /\ last'.parsed
  /\ file.kind = "doc" => IsPrefix(ModulesOf(last'.attempted), ExpectedModules(file))
  /\ last'.ok => ModulesOf(last'.attempted) = ExpectedModules(file)

\* C6 as stated: the load_agents() call that follows a failed load (of any
\* kind) loads from scratch, and no load hands an entry to the loader twice.
C6_FailedNeverSticky ==
  [][/\ (CallStep /\ last.op \in Loads /\ ~last.ok /\ last'.op = "load_agents")
          => FromScratch
     /\ (CallStep /\ last'.op \in Loads) => NoRepeats(last'.attempted)]_vars

\* C6 as amended: the load_agents() call that follows a failed load which
\* left no cached list (a failed first load, a failed reload()) loads from
\* scratch, and no load hands an entry to the loader twice.
C6_FailedNotStickyUncached ==
  [][/\ (CallStep /\ last.op \in Loads /\ ~last.ok /\ loaded_agents = NoList
            /\ last'.op = "load_agents")
          => FromScratch
     /\ (CallStep /\ last'.op \in Loads) => NoRepeats(last'.attempted)]_vars

\* a load_agents() right after a failed load, which loaded all three entries
C6_Witness ==
  /\ last.retry /\ last.op = "load_agents" /\ ~last.force
  /\ last.parsed /\ last.ok
  /\ Len(last.attempted) = 3

\* the list is one that holds the agents of all enabled entries of document
\* from, in order
IsCompleteListOf(list, from) ==
  from.kind = "doc" /\ ModulesOf(list.items) = ExpectedModules(from)

\* C24: with the calls of concurrent callers interleaved, the cached list is
\* at every step absent or complete for one parsed document, and so is every
\* list a caller is handed; and as long as no caller has called reload() or
\* load_agents(force_reload=True), all the lists load_agents() has returned
\* are one and the same list object.
C24_NoPartialCacheOneList ==
  /\ loaded_agents # NoList => IsCompleteListOf(loaded_agents, loaded_from)
  /\ \A t \in Callers :
       threads[t].returned # NoList => IsCompleteListOf(threads[t].returned, threads[t].from)
  /\ (\A t \in Callers : ~threads[t].rebuilt) => Cardinality(handed) <= 1

\* e is the first entry of agents named n, or None when no entry is
IsFirstNamed(e, agents, n) ==
  IF \E i \in 1..Len(agents) : agents[i].name = n
    THEN \E i \in 1..Len(agents) :
           /\ agents[i].name = n
           /\ e = agents[i]
           /\ \A j \in 1..(i - 1) : agents[j].name # n
    ELSE e = NoEntry

GetAgentConfigStep == CallStep /\ last'.op = "get_agent_config"

\* C20 as stated: get_agent_config(name) returns the first entry of the
\* manifest the registry holds that has the name, enabled or not, or None,
\* whatever load has done before, and leaves the cached list alone.
C20_AlwaysReturnsEntry ==
  [][GetAgentConfigStep
       => /\ last'.ok
          /\ IsFirstNamed(last'.entry, config'.agents, last'.arg)
          /\ loaded_agents' = loaded_agents]_vars

\* C20 as amended: it does so for the manifest the registry holds from its
\* last parse, and parses the file when it holds none; when that parse fails
\* it raises ConfigurationError. It leaves the cached list alone.
C20_ReturnsEntryOfParsedManifest ==
  [][GetAgentConfigStep
       => /\ loaded_agents' = loaded_agents
          /\ last'.parsed = (config = NoConfig)
          /\ LET held == IF config # NoConfig THEN config ELSE file
             IN  IF held.kind = "doc"
                   THEN /\ last'.ok
                        /\ IsFirstNamed(last'.entry, held.agents, last'.arg)
                        /\ config' = held
                   ELSE /\ ~last'.ok
                        /\ last'.err.kind = "ConfigurationError"
                        /\ config' = config]_vars

\* after a load that failed, asked for C, it has returned the disabled entry
\* declared first under that name
C20_Witness ==
  /\ last.op = "get_agent_config"
  /\ last.retry
  /\ last.ok
  /\ last.arg = "C"
  /\ last.entry = Entry("C", "mod_b", FALSE, 2)
  /\ loaded_agents = NoList

\* C29: whenever the registry holds both a parsed manifest and a cached list,
\* the list holds the agents of exactly the enabled entries of that manifest,
\* in order; and a load_agents(force_reload=True) that fails leaves the
\* manifest held and the cached list as they were before the call.
C29_CacheMatchesConfig ==
  /\ [](config # NoConfig /\ loaded_agents # NoList
          => IsCompleteListOf(loaded_agents, config))
  /\ [][(CallStep /\ last'.op = "load_agents" /\ last'.force /\ ~last'.ok)
          => UNCHANGED <<config, loaded_agents>>]_vars

\* the embedded names of the agents of the enabled entries of a registry
\* manifest, in the order their order values ask for
ExpectedNames(doc) ==
  LET m == ExpectedModules(doc)
  IN  [i \in 1..Len(m) |->
         IF m[i] = "mod_a" THEN "agent_a" ELSE IF m[i] = "mod_b" THEN "agent_b" ELSE "agent_c"]

\* a call of load_agents or reload that goes past the cache check
EntersLoading == CallStep /\ last'.op \in Loads /\ last'.parsed

\* C21: the registry starts without a cached list. A load goes past the
\* cache check only when nothing is cached, or on reload() or force_reload;
\* load_agents() without force_reload on a cached list returns that list and
\* changes nothing. The cached list changes only in a load that went past the
\* cache check: it becomes the list returned by a load in which every enabled
\* entry of the file was loaded and none raised, or it is dropped by a
\* reload() that fails. get_loaded_agent_names() returns the names of the
\* cached list in order, or nothing when no list is cached.
C21_LoadStateMachine ==
  /\ loaded_agents = NoList
  /\ [][CallStep =>
          /\ EntersLoading => (loaded_agents = NoList \/ last'.op = "reload" \/ last'.force)
          /\ (last'.op = "load_agents" /\ ~last'.force /\ loaded_agents # NoList)
               => /\ ~EntersLoading
                  /\ last'.ok /\ last'.list = loaded_agents
                  /\ last'.attempted = <<>>
                  /\ loaded_agents' = loaded_agents
          /\ loaded_agents' # loaded_agents
               => /\ EntersLoading
                  /\ IF last'.ok
                       THEN /\ loaded_agents' = last'.list
                            /\ last'.raised = <<>>
                            /\ ModulesOf(last'.attempted) = ExpectedModules(file)
                            /\ ModulesOf(loaded_agents'.items) = ExpectedModules(file)
                       ELSE last'.op = "reload" /\ loaded_agents' = NoList
          /\ (EntersLoading /\ last'.ok) => loaded_agents' = last'.list /\ last'.list # NoList
          /\ (last'.op \in Loads /\ ~last'.ok) => EntersLoading /\ last'.list = NoList
          /\ last'.op = "get_loaded_agent_names"
               => /\ loaded_agents' = loaded_agents
                  /\ last'.names = IF loaded_agents = NoList THEN <<>>
                                   ELSE ExpectedNames(loaded_from)]_vars

\* the names of three cached agents, asked for right after a forced load
\* that failed
C21_Witness ==
  /\ last.op = "get_loaded_agent_names"
  /\ last.retry
  /\ last.names = <<"agent_a", "agent_b", "agent_c">>

====
